---- MODULE Spec2Model ----
(***************************************************************************)
(* A model of uni-cache: the UniCache facade (src/UniCache.js), its        *)
(* dot-path accessors, and the SQLite, Redis, MongoDB and file backends.   *)
(*                                                                         *)
(* The module holds several specifications over one set of variables:      *)
(*   SpecSQ     concurrent calls on one SQLiteBackend instance             *)
(*   SpecCache  the facade with one attached backend and overlapping calls *)
(*   SpecSync   the facade's dirty flag and sync() with overlapping saves  *)
(*   SpecPath   the path accessors as functions of a snapshot              *)
(*   SpecSave   whole-snapshot save/fetch on each kind of backend          *)
(*   SpecLife   the facade from its constructor through init() to close()  *)
(*   SpecReload a file-backed cache and the fresh instances on its file    *)
(*   SpecDirty  one mutating call on each snapshot, clean or dirty         *)
(*   SpecCounter add, subtract and get on each snapshot, in memory         *)
(*   SpecPush   push and get on each snapshot, in memory                   *)
(*   SpecMongo  connect, save, fetch and close on the MongoDB backend      *)
(*   SpecInit   set calls made before init() has completed                 *)
(* A specification leaves the variables of the others at their initial     *)
(* values.                                                                 *)
(***************************************************************************)
EXTENDS Integers, Sequences, FiniteSets, TLC

----------------------------------------------------------------------------
(* JavaScript values.  Every value is a record of one shape, so that any   *)
(* two values can be compared: t is the type tag, n the number, s the      *)
(* string (a sequence of characters), e the elements of an array, p the    *)
(* own properties of an object.                                            *)

NoProps == [k \in {} |-> 0]

Undefined == [t |-> "undefined", n |-> 0, s |-> <<>>, e |-> <<>>, p |-> NoProps]

Null == [t |-> "null", n |-> 0, s |-> <<>>, e |-> <<>>, p |-> NoProps]

Num(i) == [t |-> "number", n |-> i, s |-> <<>>, e |-> <<>>, p |-> NoProps]

NaN == [t |-> "NaN", n |-> 0, s |-> <<>>, e |-> <<>>, p |-> NoProps]

Str(chars) == [t |-> "string", n |-> 0, s |-> chars, e |-> <<>>, p |-> NoProps]

Arr(elems) == [t |-> "array", n |-> 0, s |-> <<>>, e |-> elems, p |-> NoProps]

Obj(props) == [t |-> "object", n |-> 0, s |-> <<>>, e |-> <<>>, p |-> props]

EmptyObj == Obj(NoProps)

\* typeof v === 'object' (null and arrays included)
TypeofObject(v) == v.t \in {"object", "array", "null"}

\* typeof v === 'number' && isFinite(v)
IsFiniteNumber(v) == v.t = "number"

----------------------------------------------------------------------------
(* JSON text.  A text is a sequence of characters; JSON.stringify and      *)
(* JSON.parse are computed on the characters.  Property names are written  *)
(* in the order of KeyOrder.                                               *)

KeyOrder == <<"a", "b", "k">>

Digits == <<"0", "1", "2", "3", "4", "5", "6", "7", "8", "9">>

RECURSIVE NatText(_)
NatText(i) ==
  IF i < 10 THEN <<Digits[i + 1]>> ELSE NatText(i \div 10) \o <<Digits[(i % 10) + 1]>>

NumText(i) == IF i < 0 THEN <<"-">> \o NatText(0 - i) ELSE NatText(i)

RECURSIVE JSONstringify(_)
RECURSIVE StringifyElems(_, _)
RECURSIVE StringifyProps(_, _, _)

\* the elements of an array from index i on, separated by commas
StringifyElems(elems, i) ==
  IF i > Len(elems) THEN <<>>
  ELSE (IF i > 1 THEN <<",">> ELSE <<>>)
       \o (IF elems[i].t = "undefined" THEN JSONstringify(Null) ELSE JSONstringify(elems[i]))
       \o StringifyElems(elems, i + 1)

\* the properties of an object from KeyOrder[i] on; first: nothing written yet.
\* A property whose value is undefined is left out.
StringifyProps(props, i, first) ==
  IF i > Len(KeyOrder) THEN <<>>
  ELSE LET k == KeyOrder[i] IN
    IF k \in DOMAIN props /\ props[k].t # "undefined"
    THEN (IF first THEN <<>> ELSE <<",">>)
         \o <<"\"", k, "\"", ":">> \o JSONstringify(props[k])
         \o StringifyProps(props, i + 1, FALSE)
    ELSE StringifyProps(props, i + 1, first)

\* JSON.stringify(v) for v other than undefined (which has no text)
JSONstringify(v) ==
  CASE v.t = "null" -> <<"n", "u", "l", "l">>
    [] v.t = "NaN" -> <<"n", "u", "l", "l">>
    [] v.t = "number" -> NumText(v.n)
    [] v.t = "string" -> <<"\"">> \o v.s \o <<"\"">>
    [] v.t = "array" -> <<"[">> \o StringifyElems(v.e, 1) \o <<"]">>
    [] v.t = "object" -> <<"{">> \o StringifyProps(v.p, 1, TRUE) \o <<"}">>
    [] OTHER -> <<>>

IsDigit(c) == \E i \in 1..10 : Digits[i] = c

DigitValue(c) == (CHOOSE i \in 1..10 : Digits[i] = c) - 1

\* A parse result: ok, the value, and the index of the first character not read.
ParseFail == [ok |-> FALSE, v |-> Undefined, next |-> 0]

ParseOk(v, next) == [ok |-> TRUE, v |-> v, next |-> next]

RECURSIVE ParseDigits(_, _, _)
\* the digits from text[i] on, acc the number read so far
ParseDigits(text, i, acc) ==
  IF i <= Len(text) /\ IsDigit(text[i])
  THEN ParseDigits(text, i + 1, acc * 10 + DigitValue(text[i]))
  ELSE ParseOk(Num(acc), i)

RECURSIVE ParseChars(_, _, _)
\* the characters of a string up to its closing quote
ParseChars(text, i, acc) ==
  IF i > Len(text) THEN ParseFail
  ELSE IF text[i] = "\"" THEN ParseOk(Str(acc), i + 1)
  ELSE ParseChars(text, i + 1, Append(acc, text[i]))

RECURSIVE ParseValue(_, _)
RECURSIVE ParseElems(_, _, _)
RECURSIVE ParseMembers(_, _, _)

\* array elements after "[" or ","
ParseElems(text, i, acc) ==
  LET r == ParseValue(text, i) IN
  IF ~r.ok \/ r.next > Len(text) THEN ParseFail
  ELSE IF text[r.next] = "]" THEN ParseOk(Arr(Append(acc, r.v)), r.next + 1)
  ELSE IF text[r.next] = "," THEN ParseElems(text, r.next + 1, Append(acc, r.v))
  ELSE ParseFail

\* object members after "{" or ",": "name":value
ParseMembers(text, i, acc) ==
  IF i + 3 > Len(text) \/ text[i] # "\"" \/ text[i + 2] # "\"" \/ text[i + 3] # ":"
  THEN ParseFail
  ELSE LET k == text[i + 1]
           r == ParseValue(text, i + 4)
           props == [x \in DOMAIN acc \cup {k} |-> IF x = k THEN r.v ELSE acc[x]]
       IN IF ~r.ok \/ r.next > Len(text) THEN ParseFail
          ELSE IF text[r.next] = "}" THEN ParseOk(Obj(props), r.next + 1)
          ELSE IF text[r.next] = "," THEN ParseMembers(text, r.next + 1, props)
          ELSE ParseFail

\* one JSON value starting at text[i]
ParseValue(text, i) ==
  IF i > Len(text) THEN ParseFail
  ELSE LET c == text[i] IN
    CASE c = "n" ->
           IF i + 3 <= Len(text) /\ SubSeq(text, i, i + 3) = <<"n", "u", "l", "l">>
           THEN ParseOk(Null, i + 4) ELSE ParseFail
      [] c = "-" ->
           IF i + 1 <= Len(text) /\ IsDigit(text[i + 1])
           THEN LET r == ParseDigits(text, i + 1, 0) IN ParseOk(Num(0 - r.v.n), r.next)
           ELSE ParseFail
      [] IsDigit(c) -> ParseDigits(text, i, 0)
      [] c = "\"" -> ParseChars(text, i + 1, <<>>)
      [] c = "[" ->
           IF i + 1 <= Len(text) /\ text[i + 1] = "]" THEN ParseOk(Arr(<<>>), i + 2)
           ELSE ParseElems(text, i + 1, <<>>)
      [] c = "{" ->
           IF i + 1 <= Len(text) /\ text[i + 1] = "}" THEN ParseOk(EmptyObj, i + 2)
           ELSE ParseMembers(text, i + 1, NoProps)
      [] OTHER -> ParseFail

\* JSON.parse(text): the value, or a SyntaxError (ok = FALSE) unless the whole
\* text is one value
JSONparse(text) ==
  LET r == ParseValue(text, 1) IN
  IF r.ok /\ r.next = Len(text) + 1 THEN r ELSE ParseFail

----------------------------------------------------------------------------
(* Bounds of the model.                                                    *)

\* concurrent callers of one backend instance
NumCallers == 2

\* calls issued on the SQLite backend in one behaviour
MaxCalls == 3

\* statements of the database driver that fail in one behaviour
MaxFaults == 2

VARIABLES
  \* SQLiteBackend
  db,          \* this.db: "null" or "open"
  tableReady,  \* the table cache_data exists in the database file
  mutex,       \* this.mutex: [holder, queue] of acquire requests <<caller, site>>
  txOpen,      \* a transaction is open on the connection
  table,       \* committed rows: key -> value text (NoRow: no row)
  work,        \* rows as the open transaction sees them
  pc,          \* each caller's position
  call,        \* each caller's current call
  loc,         \* each caller's local variables
  ncalls,      \* calls issued so far
  nfaults,     \* driver failures so far
  ev,          \* the call that settled last, and how
  hist         \* what has been called so far

sqVars == <<db, tableReady, mutex, txOpen, table, work, pc, call, loc, ncalls, nfaults,
            ev, hist>>

VARIABLES
  \* UniCache
  inMemoryData,  \* this.inMemoryData: the snapshot, an object
  prototypes,    \* properties added to Object.prototype and to Array.prototype
  isDirty,       \* this.isDirty
  backend,       \* this.backend: "null", or the kind of the attached backend
  options,       \* this.options
  store,         \* what the attached backend has persisted
  inflight,      \* sync() calls suspended at backend.save
  nops,          \* facade calls issued so far
  cev,           \* what the last step did
  since,         \* what has happened since the last save and the last sync
  saved          \* the snapshots saved directly on the backend, in order

cacheVars == <<inMemoryData, prototypes, isDirty, backend, options, store, inflight, nops,
               cev, since, saved>>

VARIABLES
  \* UniCache, from its constructor to its close
  cacheType,       \* this.cacheType
  syncIntervalId,  \* the timer the constructor sets: "set" or "cleared"
  connected,       \* the connection of this.backend: "none", "open" or "closed"
  lifecycle,       \* the init() and the close() under way, the close() calls done,
                   \* and how the load of init() ended
  events,          \* what the last close() call has done, in order
  unhandled        \* a promise has rejected with no handler attached

lifeVars == <<cacheType, syncIntervalId, connected, lifecycle, events, unhandled>>

VARIABLES
  \* MongoDBBackend
  client,      \* this.client: "null", or "set" once a MongoClient was constructed
  collection,  \* this.collection: "null" or "set"
  mpc,         \* where each caller is in its call
  mcall,       \* the call of each caller
  mev,         \* the call that settled last, and how
  nmcalls,     \* calls issued so far
  nmfaults     \* driver failures so far

mongoVars == <<client, collection, mpc, mcall, mev, nmcalls, nmfaults>>

vars == <<sqVars, cacheVars, lifeVars, mongoVars>>

----------------------------------------------------------------------------
(* SQLiteBackend (src/backends/SQLiteBackend.js).                          *)

Procs == 1..NumCallers

SQKeys == {"a", "k"}

NoRow == <<>>

NoRows == [k \in SQKeys |-> NoRow]

\* the snapshots handed to save()
SaveInputs == {NoProps, [k \in {"a"} |-> Num(5)]}

\* the count arguments handed to add()
AddCounts == {Num(1), Str(<<"x">>)}

\* this.mutex (async-mutex): one holder, waiters served first come first served
NoReq == <<0, "none">>

MutexAcquireAtOnce(m, req) == [m EXCEPT !.holder = req]

MutexAcquire(m, req) ==
  IF m.holder = NoReq THEN [m EXCEPT !.holder = req]
  ELSE [m EXCEPT !.queue = Append(@, req)]

MutexRelease(m) ==
  IF m.queue = <<>> THEN [m EXCEPT !.holder = NoReq]
  ELSE [holder |-> Head(m.queue), queue |-> Tail(m.queue)]

\* _stringifyValue
SQLite_stringifyValue(value) ==
  IF value.t = "undefined" THEN JSONstringify(Null) ELSE JSONstringify(value)

\* _parseValue: the parsed value, or the raw text when it is not JSON
SQLite_parseValue(text) ==
  LET r == JSONparse(text) IN IF r.ok THEN r.v ELSE Str(text)

\* parseInt(count, 10)
RECURSIVE LeadingDigits(_, _, _)
LeadingDigits(chars, i, acc) ==
  IF i <= Len(chars) /\ IsDigit(chars[i])
  THEN LeadingDigits(chars, i + 1, acc * 10 + DigitValue(chars[i]))
  ELSE acc

parseInt(v) ==
  CASE v.t = "number" -> v
    [] v.t = "string" /\ Len(v.s) > 0 /\ IsDigit(v.s[1]) -> Num(LeadingDigits(v.s, 1, 0))
    [] OTHER -> NaN

\* the update callbacks of add, subtract and push
AddCallbackOverwrite(currentValue, numericCount) == Num(numericCount)

AddCallback(currentValue, numericCount) ==
  LET numCurrent == IF IsFiniteNumber(currentValue) THEN currentValue.n ELSE 0
  IN Num(numCurrent + numericCount)

SubtractCallback(currentValue, numericCount) ==
  LET numCurrent == IF IsFiniteNumber(currentValue) THEN currentValue.n ELSE 0
  IN Num(numCurrent - numericCount)

PushCallback(currentValue, element) ==
  Arr(Append(IF currentValue.t = "array" THEN currentValue.e ELSE <<>>, element))

\* the rows a statement on the connection reads
Visible == IF txOpen THEN work ELSE table

\* a call: count is the count of add and subtract, and the element of push
NoCall == [op |-> "none", key |-> "", count |-> Undefined, data |-> NoProps]

NoLoc == [cur |-> Undefined, err |-> "", begun |-> FALSE, rb |-> "none", pre |-> NoRow,
          todo |-> <<>>, ret |-> ""]

NoEv == [p |-> 0, op |-> "none", key |-> "", ok |-> TRUE, err |-> "", begun |-> FALSE,
         rb |-> "none", pre |-> NoRow]

\* a driver call may fail while the fault budget lasts
MayFail == nfaults < MaxFaults

\* the backend as its constructor leaves it
SQLiteConstructed ==
  /\ db = "null"
  /\ tableReady = FALSE
  /\ mutex = [holder |-> NoReq, queue |-> <<>>]
  /\ txOpen = FALSE
  /\ table = NoRows
  /\ work = NoRows
  /\ pc = [p \in Procs |-> "idle"]
  /\ call = [p \in Procs |-> NoCall]
  /\ loc = [p \in Procs |-> NoLoc]
  /\ ncalls = 0
  /\ nfaults = 0
  /\ ev = NoEv
  /\ hist = [okAdds |-> 0, inAdds |-> 0, peak |-> 0, others |-> FALSE]

\* callers of the MongoDB backend
NumMongoCallers == 2

\* calls on the MongoDB backend in one behaviour
MaxMongoCalls == 3

\* failures of the MongoDB driver in one behaviour
MaxMongoFaults == 1

MongoCallers == 1..NumMongoCallers

NoMongoEv == [p |-> 0, op |-> "none", ok |-> TRUE, err |-> ""]

\* the MongoDB backend as its constructor leaves it
MongoDBConstructed ==
  /\ client = "null"
  /\ collection = "null"
  /\ mpc = [p \in MongoCallers |-> "idle"]
  /\ mcall = [p \in MongoCallers |-> "none"]
  /\ mev = NoMongoEv
  /\ nmcalls = 0
  /\ nmfaults = 0

\* what has been called so far, once the call of p has settled
HistSettle(p, ok) ==
  IF call[p].op = "add"
  THEN [hist EXCEPT !.okAdds = IF ok THEN @ + 1 ELSE @,
                    !.inAdds = @ - 1,
                    !.others = @ \/ ~ok]
  ELSE [hist EXCEPT !.others = @ \/ ~ok]

\* the call of p settles (its promise resolves, ok, or rejects with err) and p is
\* free for its next call; rb: what became of the ROLLBACK, if one was issued
Settle(p, ok, err, rb) ==
  /\ pc' = [pc EXCEPT ![p] = "idle"]
  /\ ev' = [p |-> p, op |-> call[p].op, key |-> call[p].key, ok |-> ok, err |-> err,
            begun |-> loc[p].begun, rb |-> rb, pre |-> loc[p].pre]
  /\ hist' = HistSettle(p, ok)
  /\ call' = [call EXCEPT ![p] = NoCall]
  /\ loc' = [loc EXCEPT ![p] = NoLoc]

\* p issues a call
Issue(p) == pc[p] = "idle" /\ ncalls < MaxCalls /\ ncalls' = ncalls + 1

\* _withTransaction, line 101: the call asks for the mutex
withTransaction_acquire(p, c) ==
  /\ call' = [call EXCEPT ![p] = c]
  /\ mutex' = MutexAcquire(mutex, <<p, "tx">>)
  /\ pc' = [pc EXCEPT ![p] = "tx_wait"]

Max(a, b) == IF a > b THEN a ELSE b

\* add(key, count), lines 274-286: the count is checked, then _atomicUpdate
SQLite_add(p) ==
  \E count \in AddCounts :
    /\ Issue(p)
    /\ LET numericCount == parseInt(count) IN
       IF numericCount.t = "NaN"
       THEN /\ ev' = [NoEv EXCEPT !.p = p, !.op = "add", !.key = "k", !.ok = FALSE,
                                  !.err = "E_count"]
            /\ hist' = [hist EXCEPT !.others = TRUE]
            /\ UNCHANGED <<pc, call, mutex>>
       ELSE /\ withTransaction_acquire(p, [op |-> "add", key |-> "k",
                                           count |-> numericCount, data |-> NoProps])
            /\ hist' = [hist EXCEPT !.inAdds = @ + 1, !.peak = Max(@, hist.inAdds + 1)]
            /\ UNCHANGED ev
    /\ UNCHANGED <<db, tableReady, txOpen, table, work, loc, nfaults>>

\* subtract(key, count), lines 288-300
SQLite_subtract(p) ==
  \E count \in AddCounts :
    /\ Issue(p)
    /\ LET numericCount == parseInt(count) IN
       IF numericCount.t = "NaN"
       THEN /\ ev' = [NoEv EXCEPT !.p = p, !.op = "subtract", !.key = "k", !.ok = FALSE,
                                  !.err = "E_count"]
            /\ UNCHANGED <<pc, call, mutex>>
       ELSE /\ withTransaction_acquire(p, [op |-> "subtract", key |-> "k",
                                           count |-> numericCount, data |-> NoProps])
            /\ UNCHANGED ev
    /\ hist' = [hist EXCEPT !.others = TRUE]
    /\ UNCHANGED <<db, tableReady, txOpen, table, work, loc, nfaults>>

\* the elements handed to push()
PushElements == {Num(7)}

\* push(key, element), lines 302-309
SQLite_push(p) ==
  \E element \in PushElements :
    /\ Issue(p)
    /\ withTransaction_acquire(p, [op |-> "push", key |-> "k", count |-> element,
                                   data |-> NoProps])
    /\ hist' = [hist EXCEPT !.others = TRUE]
    /\ UNCHANGED <<db, tableReady, txOpen, table, work, loc, nfaults, ev>>

\* save(data), lines 132-153
SQLite_save(p) ==
  \E data \in SaveInputs :
    /\ Issue(p)
    /\ withTransaction_acquire(p, [op |-> "save", key |-> "", count |-> Undefined,
                                   data |-> data])
    /\ hist' = [hist EXCEPT !.others = TRUE]
    /\ UNCHANGED <<db, tableReady, txOpen, table, work, loc, nfaults, ev>>

\* clear(), lines 220-227
SQLite_clear(p) ==
  /\ Issue(p)
  /\ withTransaction_acquire(p, [op |-> "clear", key |-> "", count |-> Undefined,
                                 data |-> NoProps])
  /\ hist' = [hist EXCEPT !.others = TRUE]
  /\ UNCHANGED <<db, tableReady, txOpen, table, work, loc, nfaults, ev>>

\* connect, lines 62 and 70: if (this.db) return
HandleSetNever(handle) == FALSE

HandleSet(handle) == handle = "open"

\* connect() called on its own, lines 55-68: returns at once when the handle is set,
\* else asks for the mutex
SQLite_connect(p) ==
  /\ Issue(p)
  /\ IF HandleSet(db)
     THEN /\ ev' = [NoEv EXCEPT !.p = p, !.op = "connect"]
          /\ UNCHANGED <<pc, call, loc, mutex>>
     ELSE /\ call' = [call EXCEPT ![p] = [NoCall EXCEPT !.op = "connect"]]
          /\ loc' = [loc EXCEPT ![p].ret = "call"]
          /\ mutex' = MutexAcquire(mutex, <<p, "connect">>)
          /\ pc' = [pc EXCEPT ![p] = "cn_wait"]
          /\ UNCHANGED ev
  /\ UNCHANGED <<db, tableReady, txOpen, table, work, nfaults, hist>>

\* close(), line 313: asks for the mutex
SQLite_close(p) ==
  /\ Issue(p)
  /\ call' = [call EXCEPT ![p] = [NoCall EXCEPT !.op = "close"]]
  /\ mutex' = MutexAcquire(mutex, <<p, "close">>)
  /\ pc' = [pc EXCEPT ![p] = "cz_wait"]
  /\ hist' = [hist EXCEPT !.others = TRUE]
  /\ UNCHANGED <<db, tableReady, txOpen, table, work, loc, nfaults, ev>>

\* connect() returns (ok) or throws (err) to where it was called from
ConnectReturn(p, ok, err) ==
  IF loc[p].ret = "call"
  THEN Settle(p, ok, err, "none")
  ELSE /\ pc' = [pc EXCEPT ![p] = IF ok THEN "tx_begin" ELSE "tx_catch"]
       /\ loc' = [loc EXCEPT ![p].err = err]
       /\ UNCHANGED <<call, ev, hist>>

\* _withTransaction, lines 101-104: the mutex is granted and connect() is called,
\* which returns at once when the handle is set and asks for the mutex otherwise
withTransaction_locked(p) ==
  /\ pc[p] = "tx_wait"
  /\ mutex.holder = <<p, "tx">>
  /\ IF HandleSet(db)
     THEN /\ pc' = [pc EXCEPT ![p] = "tx_begin"]
          /\ UNCHANGED <<mutex, loc>>
     ELSE /\ mutex' = MutexAcquire(mutex, <<p, "connect">>)
          /\ loc' = [loc EXCEPT ![p].ret = "tx"]
          /\ pc' = [pc EXCEPT ![p] = "cn_wait"]
  /\ UNCHANGED <<db, tableReady, txOpen, table, work, call, ncalls, nfaults, ev, hist>>

\* connect(), lines 68-74: the mutex is granted; the handle is checked again
connect_locked(p) ==
  /\ pc[p] = "cn_wait"
  /\ mutex.holder = <<p, "connect">>
  /\ IF HandleSet(db)
     THEN /\ mutex' = MutexRelease(mutex)
          /\ ConnectReturn(p, TRUE, "")
     ELSE /\ pc' = [pc EXCEPT ![p] = "cn_open"]
          /\ UNCHANGED <<mutex, call, loc, ev, hist>>
  /\ UNCHANGED <<db, tableReady, txOpen, table, work, ncalls, nfaults>>

\* connect(), lines 75-79: the directory is ensured and the database opened
connect_open(p) ==
  /\ pc[p] = "cn_open"
  /\ \/ /\ db' = "open"
        /\ pc' = [pc EXCEPT ![p] = "cn_setup"]
        /\ UNCHANGED <<mutex, call, loc, ev, hist, nfaults>>
     \/ /\ MayFail
        /\ nfaults' = nfaults + 1
        /\ db' = "null"
        /\ mutex' = MutexRelease(mutex)
        /\ ConnectReturn(p, FALSE, "E_open")
  /\ UNCHANGED <<tableReady, txOpen, table, work, ncalls>>

\* connect(), lines 80-96: PRAGMA and CREATE TABLE, then the mutex is released
connect_setup(p) ==
  /\ pc[p] = "cn_setup"
  /\ \/ /\ tableReady' = TRUE
        /\ mutex' = MutexRelease(mutex)
        /\ ConnectReturn(p, TRUE, "")
        /\ UNCHANGED <<db, nfaults>>
     \/ /\ MayFail
        /\ nfaults' = nfaults + 1
        /\ db' = "null"
        /\ mutex' = MutexRelease(mutex)
        /\ ConnectReturn(p, FALSE, "E_setup")
        /\ UNCHANGED tableReady
  /\ UNCHANGED <<txOpen, table, work, ncalls>>

\* (a variant of WriteRows: every statement writes straight into the table)
WriteRowsAutocommit(rows) == table' = rows /\ work' = work

\* a statement writes rows: into the open transaction, or straight into the table
WriteRows(rows) ==
  IF txOpen THEN work' = rows /\ table' = table ELSE table' = rows /\ work' = work

\* the catch block is entered with err
Catch(p, err) ==
  /\ pc' = [pc EXCEPT ![p] = "tx_catch"]
  /\ loc' = [loc EXCEPT ![p].err = err]

\* a statement of the driver fails
Fault(p, err) ==
  /\ MayFail
  /\ nfaults' = nfaults + 1
  /\ Catch(p, err)

\* where the operation passed to _withTransaction starts
OperationEntry(op) ==
  CASE op \in {"add", "subtract", "push"} -> "au_read"
    [] op = "save" -> "sv_delete"
    [] OTHER -> "cl_delete"

\* _withTransaction, lines 105-108: BEGIN IMMEDIATE TRANSACTION, which the database
\* refuses while a transaction is open on the connection
withTransaction_begin(p) ==
  /\ pc[p] = "tx_begin"
  /\ IF db = "null"
     THEN Catch(p, "E_notconnected") /\ UNCHANGED <<txOpen, work, nfaults>>
     ELSE \/ /\ ~txOpen
             /\ txOpen' = TRUE
             /\ work' = table
             /\ pc' = [pc EXCEPT ![p] = OperationEntry(call[p].op)]
             /\ loc' = [loc EXCEPT ![p].begun = TRUE,
                                   ![p].pre = IF call[p].key \in SQKeys
                                              THEN table[call[p].key] ELSE NoRow]
             /\ UNCHANGED nfaults
          \/ /\ txOpen
             /\ Catch(p, "E_begin")
             /\ UNCHANGED <<txOpen, work, nfaults>>
          \/ /\ ~txOpen
             /\ Fault(p, "E_begin")
             /\ UNCHANGED <<txOpen, work>>
  /\ UNCHANGED <<db, tableReady, mutex, table, call, ncalls, ev, hist>>

\* _atomicUpdate, lines 158-159: the row of the key is read and parsed
atomicUpdate_read(p) ==
  /\ pc[p] = "au_read"
  /\ \/ /\ LET text == Visible[call[p].key] IN
           loc' = [loc EXCEPT ![p].cur = IF text = NoRow THEN Undefined
                                         ELSE SQLite_parseValue(text)]
        /\ pc' = [pc EXCEPT ![p] = "au_write"]
        /\ UNCHANGED nfaults
     \/ Fault(p, "E_read")
  /\ UNCHANGED <<db, tableReady, mutex, txOpen, table, work, call, ncalls, ev, hist>>

\* the update callback the call passed to _atomicUpdate
UpdateCallback(c, currentValue) ==
  CASE c.op = "add" -> AddCallback(currentValue, c.count.n)
    [] c.op = "subtract" -> SubtractCallback(currentValue, c.count.n)
    [] OTHER -> PushCallback(currentValue, c.count)

\* _atomicUpdate, lines 160-163: the new value is computed and written back
atomicUpdate_write(p) ==
  /\ pc[p] = "au_write"
  /\ \/ /\ LET newValue == UpdateCallback(call[p], loc[p].cur) IN
           WriteRows([Visible EXCEPT ![call[p].key] = SQLite_stringifyValue(newValue)])
        /\ pc' = [pc EXCEPT ![p] = "tx_commit"]
        /\ UNCHANGED <<loc, nfaults>>
     \/ Fault(p, "E_write") /\ UNCHANGED <<table, work>>
  /\ UNCHANGED <<db, tableReady, mutex, txOpen, call, ncalls, ev, hist>>

RECURSIVE Entries(_, _)
\* Object.entries(data): the keys of data from KeyOrder[i] on
Entries(data, i) ==
  IF i > Len(KeyOrder) THEN <<>>
  ELSE (IF KeyOrder[i] \in DOMAIN data THEN <<KeyOrder[i]>> ELSE <<>>)
       \o Entries(data, i + 1)

\* save, lines 134-141: DELETE FROM the table
save_delete(p) ==
  /\ pc[p] = "sv_delete"
  /\ \/ /\ WriteRows(NoRows)
        /\ LET entries == Entries(call[p].data, 1) IN
           /\ loc' = [loc EXCEPT ![p].todo = entries]
           /\ pc' = [pc EXCEPT ![p] = IF entries = <<>> THEN "tx_commit" ELSE "sv_insert"]
        /\ UNCHANGED nfaults
     \/ Fault(p, "E_delete") /\ UNCHANGED <<table, work>>
  /\ UNCHANGED <<db, tableReady, mutex, txOpen, call, ncalls, ev, hist>>

\* save, lines 142-146: one INSERT of the loop over the entries
save_insert(p) ==
  /\ pc[p] = "sv_insert"
  /\ \/ /\ LET key == Head(loc[p].todo) IN
           WriteRows([Visible EXCEPT ![key] = SQLite_stringifyValue(call[p].data[key])])
        /\ loc' = [loc EXCEPT ![p].todo = Tail(@)]
        /\ pc' = [pc EXCEPT ![p] = IF Tail(loc[p].todo) = <<>> THEN "tx_commit"
                                   ELSE "sv_insert"]
        /\ UNCHANGED nfaults
     \/ Fault(p, "E_insert") /\ UNCHANGED <<table, work>>
  /\ UNCHANGED <<db, tableReady, mutex, txOpen, call, ncalls, ev, hist>>

\* clear, lines 222-226: DELETE FROM the table
clear_delete(p) ==
  /\ pc[p] = "cl_delete"
  /\ \/ /\ WriteRows(NoRows)
        /\ pc' = [pc EXCEPT ![p] = "tx_commit"]
        /\ UNCHANGED <<loc, nfaults>>
     \/ Fault(p, "E_delete") /\ UNCHANGED <<table, work>>
  /\ UNCHANGED <<db, tableReady, mutex, txOpen, call, ncalls, ev, hist>>

\* _withTransaction, lines 110-112 and 126-128: COMMIT, then the result is returned
\* and the finally block releases the mutex
withTransaction_commit(p) ==
  /\ pc[p] = "tx_commit"
  /\ \/ /\ txOpen
        /\ table' = work
        /\ txOpen' = FALSE
        /\ mutex' = MutexRelease(mutex)
        /\ Settle(p, TRUE, "", "none")
        /\ UNCHANGED nfaults
     \/ /\ Fault(p, "E_commit")
        /\ UNCHANGED <<table, txOpen, mutex, call, ev, hist>>
  /\ UNCHANGED <<db, tableReady, work, ncalls>>

\* the error the catch block of _withTransaction throws: the one it caught
Rethrown(err, rbErr) == err

\* _withTransaction, lines 126-128: finally { release() }, whatever became of the
\* ROLLBACK
ReleaseUnlessRollbackFailed(m, rb) == IF rb = "failed" THEN m ELSE MutexRelease(m)

ReleaseInFinally(m, rb) == MutexRelease(m)

\* _withTransaction, lines 113-128: ROLLBACK if the handle is set, whose own failure
\* is logged; the error caught is thrown again and the finally block releases the mutex
withTransaction_rollback(p) ==
  /\ pc[p] = "tx_catch"
  /\ IF db = "null"
     THEN /\ Settle(p, FALSE, Rethrown(loc[p].err, ""), "none")
          /\ UNCHANGED <<txOpen, nfaults>>
     ELSE \/ /\ txOpen
             /\ txOpen' = FALSE
             /\ Settle(p, FALSE, Rethrown(loc[p].err, ""), "ok")
             /\ UNCHANGED nfaults
          \/ /\ ~txOpen
             /\ Settle(p, FALSE, Rethrown(loc[p].err, "E_rollback"), "failed")
             /\ UNCHANGED <<txOpen, nfaults>>
          \/ /\ txOpen
             /\ MayFail
             /\ nfaults' = nfaults + 1
             /\ Settle(p, FALSE, Rethrown(loc[p].err, "E_rollback"), "failed")
             /\ UNCHANGED txOpen
  /\ mutex' = ReleaseInFinally(mutex, ev'.rb)
  /\ UNCHANGED <<db, tableReady, table, work, ncalls>>

\* (a variant of CloseGranted: close() goes on without the mutex)
CloseGrantedAtOnce(m, p) == TRUE

\* close(), line 313: await this.mutex.acquire() has returned to the close() of p
CloseGranted(m, p) == m.holder = <<p, "close">>

\* close(), lines 313-322: the mutex is granted; nothing to do without a handle
close_locked(p) ==
  /\ pc[p] = "cz_wait"
  /\ CloseGranted(mutex, p)
  /\ IF db = "open"
     THEN /\ pc' = [pc EXCEPT ![p] = "cz_close"]
          /\ UNCHANGED <<mutex, call, loc, ev, hist>>
     ELSE /\ mutex' = MutexRelease(mutex)
          /\ Settle(p, TRUE, "", "none")
  /\ UNCHANGED <<db, tableReady, txOpen, table, work, ncalls, nfaults>>

\* close(), lines 317-328: the database is closed (a transaction left open on the
\* connection is lost with it) and the mutex released
close_db(p) ==
  /\ pc[p] = "cz_close"
  /\ \/ /\ db' = "null"
        /\ txOpen' = FALSE
        /\ Settle(p, TRUE, "", "none")
        /\ UNCHANGED nfaults
     \/ /\ MayFail
        /\ nfaults' = nfaults + 1
        /\ Settle(p, FALSE, "E_close", "none")
        /\ UNCHANGED <<db, txOpen>>
  /\ mutex' = MutexRelease(mutex)
  /\ UNCHANGED <<tableReady, table, work, ncalls>>

NextSQ ==
  \E p \in Procs :
    \/ SQLite_add(p) /\ UNCHANGED <<cacheVars, lifeVars, mongoVars>>
    \/ SQLite_subtract(p) /\ UNCHANGED <<cacheVars, lifeVars, mongoVars>>
    \/ SQLite_push(p) /\ UNCHANGED <<cacheVars, lifeVars, mongoVars>>
    \/ SQLite_save(p) /\ UNCHANGED <<cacheVars, lifeVars, mongoVars>>
    \/ SQLite_clear(p) /\ UNCHANGED <<cacheVars, lifeVars, mongoVars>>
    \/ SQLite_connect(p) /\ UNCHANGED <<cacheVars, lifeVars, mongoVars>>
    \/ SQLite_close(p) /\ UNCHANGED <<cacheVars, lifeVars, mongoVars>>
    \/ withTransaction_locked(p) /\ UNCHANGED <<cacheVars, lifeVars, mongoVars>>
    \/ connect_locked(p) /\ UNCHANGED <<cacheVars, lifeVars, mongoVars>>
    \/ connect_open(p) /\ UNCHANGED <<cacheVars, lifeVars, mongoVars>>
    \/ connect_setup(p) /\ UNCHANGED <<cacheVars, lifeVars, mongoVars>>
    \/ withTransaction_begin(p) /\ UNCHANGED <<cacheVars, lifeVars, mongoVars>>
    \/ atomicUpdate_read(p) /\ UNCHANGED <<cacheVars, lifeVars, mongoVars>>
    \/ atomicUpdate_write(p) /\ UNCHANGED <<cacheVars, lifeVars, mongoVars>>
    \/ save_delete(p) /\ UNCHANGED <<cacheVars, lifeVars, mongoVars>>
    \/ save_insert(p) /\ UNCHANGED <<cacheVars, lifeVars, mongoVars>>
    \/ clear_delete(p) /\ UNCHANGED <<cacheVars, lifeVars, mongoVars>>
    \/ withTransaction_commit(p) /\ UNCHANGED <<cacheVars, lifeVars, mongoVars>>
    \/ withTransaction_rollback(p) /\ UNCHANGED <<cacheVars, lifeVars, mongoVars>>
    \/ close_locked(p) /\ UNCHANGED <<cacheVars, lifeVars, mongoVars>>
    \/ close_db(p) /\ UNCHANGED <<cacheVars, lifeVars, mongoVars>>

----------------------------------------------------------------------------
(* Claims about SQLiteBackend, checked under SpecSQ.                       *)

AllIdle == \A p \in Procs : pc[p] = "idle"

\* the value a read of key returns on the connection
StoredValue(key) ==
  IF Visible[key] = NoRow THEN Undefined ELSE SQLite_parseValue(Visible[key])

\* C1: no lost updates.  When every call issued so far was connect() or add("k", 1),
\* none failed and all have resolved, the value stored for "k" is the number of the
\* add calls (no row when there was none), whatever their interleaving.
C1_NoLostUpdates ==
  (AllIdle /\ ~hist.others) =>
    StoredValue("k") = (IF hist.okAdds = 0 THEN Undefined ELSE Num(hist.okAdds))

\* C1 witness: two add calls that were in flight together have both resolved.
C1_Witness ==
  AllIdle /\ ~hist.others /\ hist.okAdds >= 2 /\ hist.peak >= 2 /\ StoredValue("k") = Num(2)

\* C2: no deadlock.  No state is reachable in which a call holds the mutex for its
\* transaction and waits, inside connect(), for that same mutex: such a holder can
\* never proceed, and no waiter behind it is ever granted the lock.
C2_NoDeadlock ==
  \A p \in Procs : ~(mutex.holder = <<p, "tx">> /\ pc[p] = "cn_wait")

\* an atomic update of p that began its transaction leaves the catch block
AtomicUpdateFailed(p) ==
  /\ pc[p] = "tx_catch"
  /\ pc'[p] = "idle"
  /\ call[p].op \in {"add", "subtract", "push"}
  /\ loc[p].begun

\* C7: a failed atomic update leaves no trace.  When an atomic update fails after its
\* transaction began, a ROLLBACK is attempted, the call rejects with the error that
\* made it fail, and the row committed for the key is the one from before the attempt;
\* when the ROLLBACK succeeded no transaction is left open, so every read returns it.
C7_FailureLeavesNoTrace ==
  [][\A p \in Procs :
       AtomicUpdateFailed(p) =>
         /\ ev'.rb # "none"
         /\ ~ev'.ok
         /\ ev'.err = loc[p].err
         /\ ev'.err \in {"E_read", "E_write", "E_commit"}
         /\ table'[call[p].key] = loc[p].pre
         /\ (ev'.rb = "ok" => (~txOpen' /\ Visible'[call[p].key] = loc[p].pre))]_vars

\* C7 witness: an add whose COMMIT failed after the write-back has been rolled back
\* and has rejected.
C7_Witness ==
  /\ ev.op = "add"
  /\ ~ev.ok
  /\ ev.begun
  /\ ev.err = "E_commit"
  /\ ev.rb = "ok"
  /\ table[ev.key] = ev.pre

\* the connect() call of p resolves: at once, after the second look at the handle, or
\* after the set-up
ConnectResolves(p) ==
  \/ /\ pc[p] = "idle"
     /\ pc' = pc
     /\ call' = call
     /\ ncalls' = ncalls + 1
     /\ ev'.op = "connect"
     /\ ev'.p = p
  \/ /\ pc[p] \in {"cn_wait", "cn_setup"}
     /\ call[p].op = "connect"
     /\ pc'[p] = "idle"
     /\ ev'.ok

\* C27: connect() is idempotent.  A connect() on a backend whose handle is set returns
\* with nothing opened or changed; the database is opened only while no handle is set,
\* by one call at a time, so concurrent connect() calls on an unconnected backend open
\* it once; and whenever a connect() call resolves the handle is set.
C27_ConnectIdempotent ==
  /\ [][\A p \in Procs :
          (ConnectResolves(p) /\ pc[p] = "idle") =>
            (db = "open" /\ UNCHANGED <<db, tableReady, mutex, txOpen, table, work>>)]_vars
  /\ [][\A p \in Procs :
          (pc[p] = "cn_open" /\ pc'[p] # "cn_open") => db = "null"]_vars
  /\ [](Cardinality({p \in Procs : pc[p] \in {"cn_open", "cn_setup"}}) <= 1)
  /\ [][\A p \in Procs : ConnectResolves(p) => db' = "open"]_vars

\* C27 witness: two connect() calls on an unconnected backend; one has opened the
\* database and the other waits for the mutex.
C27_Witness ==
  \E p, q \in Procs :
    /\ p # q
    /\ call[p].op = "connect"
    /\ call[q].op = "connect"
    /\ pc[p] = "cn_setup"
    /\ pc[q] = "cn_wait"
    /\ db = "open"
    /\ ~hist.others

\* p is in the locked section of _withTransaction: the mutex was granted to its call
\* and is not yet released
InTransaction(p) ==
  \/ pc[p] \in {"tx_begin", "au_read", "au_write", "sv_delete", "sv_insert", "cl_delete",
                 "tx_commit", "tx_catch"}
  \/ pc[p] \in {"tx_wait", "cn_wait", "cn_open", "cn_setup"} /\ mutex.holder = <<p, "tx">>

\* C28: mutual exclusion.  At most one call is in the locked section of
\* _withTransaction, and between the read and the write-back of an atomic update no
\* step of another call changes a row.
C28_MutualExclusion ==
  /\ [](Cardinality({p \in Procs : InTransaction(p)}) <= 1)
  /\ [][\A p \in Procs :
          (pc[p] = "au_write" /\ pc'[p] = "au_write") =>
            UNCHANGED <<table, work, txOpen>>]_vars

\* C28 witness: an atomic update has read its row and not yet written it back, and
\* another call waits for the mutex it holds.
C28_Witness ==
  \E p, q \in Procs :
    /\ p # q
    /\ pc[p] = "au_write"
    /\ mutex.holder = <<p, "tx">>
    /\ pc[q] = "tx_wait"
    /\ call[q].op \in {"add", "subtract", "push", "save", "clear"}

\* the _withTransaction call of p settles
TransactionSettles(p) ==
  /\ pc[p] \in {"tx_begin", "au_read", "au_write", "sv_delete", "sv_insert", "cl_delete",
                 "tx_commit", "tx_catch"}
  /\ pc'[p] = "idle"

\* C29: the lock is released on every exit path.  When a _withTransaction call settles,
\* committed or failed, with the ROLLBACK done or failed, it held the mutex and that
\* step releases it once: the mutex goes to the first waiter, or is free; and no
\* caller without a call under way holds the mutex.
C29_LockReleased ==
  /\ [][\A p \in Procs :
          TransactionSettles(p) =>
            /\ mutex.holder = <<p, "tx">>
            /\ mutex'.holder = (IF mutex.queue = <<>> THEN NoReq ELSE Head(mutex.queue))
            /\ mutex'.queue = (IF mutex.queue = <<>> THEN <<>> ELSE Tail(mutex.queue))]_vars
  /\ [](\A p \in Procs : pc[p] = "idle" => mutex.holder[1] # p)

\* C29 witness: a call whose ROLLBACK failed has rejected and the mutex is free.
C29_Witness ==
  /\ ev.op \in {"add", "subtract", "push", "save", "clear"}
  /\ ~ev.ok
  /\ ev.rb = "failed"
  /\ pc[ev.p] = "idle"
  /\ mutex.holder = NoReq

\* the operations that go through _atomicUpdate
AtomicOps == {"add", "subtract", "push"}

\* C31 (as the code has it): save runs inside the coordinator lock.  While an atomic
\* add, subtract or push is between the read of its key and its write-back, no save
\* is at one of its statements (DELETE, INSERT, COMMIT), so no write of a save falls
\* between the two.
C31_SaveSerialized ==
  \A p, q \in Procs :
    (pc[p] = "au_write" /\ call[p].op \in AtomicOps /\ call[q].op = "save") =>
      pc[q] \notin {"sv_delete", "sv_insert", "tx_commit"}

\* C31 witness: a save was called while an atomic update is between its read and its
\* write-back, and waits in the queue of the mutex the update holds.
C31_Witness ==
  \E p, q \in Procs :
    /\ pc[p] = "au_write"
    /\ call[p].op \in AtomicOps
    /\ mutex.holder = <<p, "tx">>
    /\ call[q].op = "save"
    /\ pc[q] = "tx_wait"
    /\ mutex.queue = <<(<<q, "tx">>)>>

\* C31 (as stated): save is outside the coordinator lock.  A save under way neither
\* holds the mutex nor waits for it, so its writes can fall between the read and the
\* write-back of an atomic update.
C31_SaveOutsideLock ==
  \A q \in Procs :
    (call[q].op = "save" /\ pc[q] # "idle") =>
      /\ mutex.holder # <<q, "tx">>
      /\ \A i \in 1..Len(mutex.queue) : mutex.queue[i] # <<q, "tx">>

\* C34: close() never closes the database under a running transaction.  The close()
\* that is about to call db.close() holds the mutex and no call is in the locked
\* section of _withTransaction; the handle is reset only in such a state; and a
\* close() that waits while a call is in that section stays waiting at that call's
\* steps.
C34_CloseOutsideTransaction ==
  /\ [](\A p \in Procs :
          pc[p] = "cz_close" =>
            /\ mutex.holder = <<p, "close">>
            /\ \A q \in Procs : ~InTransaction(q))
  /\ [][(db = "open" /\ db' = "null") => \A q \in Procs : ~InTransaction(q)]_vars
  /\ [][\A p, q \in Procs :
          (pc[p] = "cz_wait" /\ InTransaction(q) /\ pc'[q] # "idle") =>
            pc'[p] = "cz_wait"]_vars

\* C34 witness: close() was called while an atomic update has its transaction open,
\* and waits for the mutex.
C34_Witness ==
  \E p, q \in Procs :
    /\ pc[p] = "cz_wait"
    /\ pc[q] = "au_write"
    /\ txOpen
    /\ mutex.holder = <<q, "tx">>
    /\ mutex.queue = <<(<<p, "close">>)>>

\* C35: no transaction outlives its lock.  When a _withTransaction call whose BEGIN
\* succeeded settles, and so releases the mutex, no transaction is open on the
\* connection; and a call at its COMMIT enters the catch block only with the COMMIT
\* failed, its transaction still open.
C35_NoTransactionOutlivesLock ==
  /\ [][\A p \in Procs :
          (TransactionSettles(p) /\ loc[p].begun) => ~txOpen']_vars
  /\ [][\A p \in Procs :
          (pc[p] = "tx_commit" /\ pc'[p] = "tx_catch") => (txOpen' /\ table' = table)]_vars

----------------------------------------------------------------------------
(* The dot-path accessors (src/UniCache.js, lines 9-40).                   *)
(*                                                                         *)
(* A key is an array of property names or a string that split('.') cuts    *)
(* into property names.  A string key is a sequence of tokens, each a      *)
(* property name or the separator "."; two names are never adjacent.       *)

\* longest path of the keys tried on the accessors
MaxPathLen == 2

ArrayKey(names) == [arr |-> TRUE, parts |-> names]

StringKey(tokens) == [arr |-> FALSE, parts |-> tokens]

RECURSIVE SplitFrom(_, _, _, _)
\* key.split('.'): cur is the name read since the last separator
SplitFrom(tokens, i, cur, acc) ==
  IF i > Len(tokens) THEN Append(acc, cur)
  ELSE IF tokens[i] = "." THEN SplitFrom(tokens, i + 1, "", Append(acc, cur))
  ELSE SplitFrom(tokens, i + 1, tokens[i], acc)

\* const props = Array.isArray(key) ? key : key.split('.')
PathOf(key) == IF key.arr THEN key.parts ELSE SplitFrom(key.parts, 1, "", <<>>)

RECURSIVE DotJoin(_, _)
\* the string that names the path: its names from the i-th on, "." between them
DotJoin(names, i) ==
  IF i > Len(names) THEN <<>>
  ELSE (IF i > 1 THEN <<".">> ELSE <<>>) \o <<names[i]>> \o DotJoin(names, i + 1)

\* typeof v === 'object' && v !== null: v has properties to walk into
IsContainer(v) == v.t \in {"object", "array"}

RECURSIVE GetFrom(_, _, _)
\* getProperties, lines 11-17: only own properties are followed
GetFrom(current, props, i) ==
  IF i > Len(props) THEN current
  ELSE IF ~IsContainer(current) THEN Undefined
  ELSE IF props[i] \notin DOMAIN current.p THEN Undefined
  ELSE GetFrom(current.p[props[i]], props, i + 1)

getPropertiesOfParent(obj, key) ==
  GetFrom(obj, SubSeq(PathOf(key), 1, Len(PathOf(key)) - 1), 1)

getProperties(obj, key) == GetFrom(obj, PathOf(key), 1)

\* the values setProperties replaces by {} on its way: target[prop] === undefined ||
\* target[prop] === null || typeof target[prop] !== 'object' (line 32); of these the
\* ones that are there are the scalars and null
IsScalar(v) == v.t \notin {"undefined", "object", "array"}

\* the length of the shortest proper prefix of props that holds a scalar or null in
\* obj, 0 when there is none
ScalarPrefix(obj, props) ==
  LET ks == {k \in 1..(Len(props) - 1) : IsScalar(GetFrom(obj, SubSeq(props, 1, k), 1))}
  IN IF ks = {} THEN 0 ELSE CHOOSE k \in ks : \A j \in ks : k <= j

(* setProperties reads target[prop], which follows the prototype chain, and *)
(* assigns target[prop], which runs the __proto__ setter.  The objects a    *)
(* walk can stand in are those of the snapshot and the two prototypes, so a *)
(* heap maps "data", "Object.prototype" and "Array.prototype" to an object  *)
(* and a reference is a root with a path of own properties.                 *)
Heap(data, protos) ==
  [r \in {"data", "Object.prototype", "Array.prototype"} |->
     IF r = "data" THEN data ELSE protos[r]]

Ref(root, path) == [root |-> root, path |-> path]

CleanPrototypes == [r \in {"Object.prototype", "Array.prototype"} |-> EmptyObj]

RECURSIVE Deref(_, _, _)
Deref(v, path, i) == IF i > Len(path) THEN v ELSE Deref(v.p[path[i]], path, i + 1)

\* v with own property prop = val
WithProp(v, prop, val) ==
  [v EXCEPT !.p = [x \in DOMAIN v.p \cup {prop} |-> IF x = prop THEN val ELSE v.p[x]]]

\* v without own property prop
WithoutProp(v, prop) == [v EXCEPT !.p = [x \in DOMAIN v.p \ {prop} |-> v.p[x]]]

RECURSIVE PutAt(_, _, _, _, _)
\* v with own property prop = val on the object at path
PutAt(v, path, i, prop, val) ==
  IF i > Len(path) THEN WithProp(v, prop, val)
  ELSE [v EXCEPT !.p[path[i]] = PutAt(v.p[path[i]], path, i + 1, prop, val)]

\* the prototype of the object at ref: null for Object.prototype itself
PrototypeOf(heap, ref) ==
  IF ref = Ref("Object.prototype", <<>>) THEN "null"
  ELSE IF Deref(heap[ref.root], ref.path, 1).t = "array" THEN "Array.prototype"
  ELSE "Object.prototype"

RECURSIVE Lookup(_, _, _)
\* target[prop]: the value read and the object it is, own properties first, then
\* the prototype chain; __proto__ reads the prototype itself
Lookup(heap, ref, prop) ==
  LET node == Deref(heap[ref.root], ref.path, 1)
      up == PrototypeOf(heap, ref)
  IN IF prop \in DOMAIN node.p
     THEN [v |-> node.p[prop], ref |-> Ref(ref.root, Append(ref.path, prop))]
     ELSE IF up = "null"
     THEN [v |-> IF prop = "__proto__" THEN Null ELSE Undefined, ref |-> ref]
     ELSE IF prop = "__proto__" THEN [v |-> heap[up], ref |-> Ref(up, <<>>)]
     ELSE Lookup(heap, Ref(up, <<>>), prop)

\* target[prop] = val.  Assigning __proto__ creates no own property: it sets the
\* prototype of target when val is an object (a TypeError on Object.prototype) and
\* does nothing otherwise.
Assign(heap, ref, prop, val) ==
  IF prop = "__proto__"
  THEN [heap |-> heap, threw |-> ref = Ref("Object.prototype", <<>>) /\ IsContainer(val)]
  ELSE [heap |-> [heap EXCEPT ![ref.root] = PutAt(@, ref.path, 1, prop, val)],
        threw |-> FALSE]

RECURSIVE SetFrom(_, _, _, _, _)
\* setProperties, lines 30-39, from props[i] on with target the object at ref
SetFrom(heap, ref, props, i, val) ==
  IF i = Len(props) THEN Assign(heap, ref, props[i], val)
  ELSE IF ~IsContainer(Lookup(heap, ref, props[i]).v)
  THEN LET made == Assign(heap, ref, props[i], EmptyObj) IN
       IF made.threw THEN made
       ELSE SetFrom(made.heap, Lookup(made.heap, ref, props[i]).ref, props, i + 1, val)
  ELSE SetFrom(heap, Lookup(heap, ref, props[i]).ref, props, i + 1, val)

setProperties(heap, key, val) ==
  IF Len(PathOf(key)) = 0 THEN [heap |-> heap, threw |-> FALSE]
  ELSE SetFrom(heap, Ref("data", <<>>), PathOf(key), 1, val)

----------------------------------------------------------------------------
(* The backends as stores: what save(data) leaves persisted and what       *)
(* fetch() returns.  A store maps the keys that have a record to the       *)
(* record; the file backend's store is its file.                           *)

Kinds == {"file", "sqlite", "redis", "mongodb"}

NoFile == [exists |-> FALSE, text |-> <<>>]

EmptyStore(kind) == IF kind = "file" THEN NoFile ELSE NoProps

\* FileBackend._saveData: the file is rewritten with the text of data (the
\* indentation JSON.stringify(data, null, 2) adds is not written here)
FileSave(st, data) == [exists |-> TRUE, text |-> JSONstringify(Obj(data))]

\* FileBackend._loadData: {} when there is no file or its text is not JSON
FileFetch(st) ==
  IF ~st.exists THEN NoProps
  ELSE LET r == JSONparse(st.text) IN IF r.ok THEN r.v.p ELSE NoProps

\* SQLiteBackend.save as one committed transaction: DELETE FROM, then one INSERT
\* for each entry
SQLiteSave(st, data) == [k \in DOMAIN data |-> SQLite_stringifyValue(data[k])]

SQLiteFetch(st) == [k \in DOMAIN st |-> SQLite_parseValue(st[k])]

\* RedisBackend._stringifyValue: a string is stored as it is
Redis_stringifyValue(value) ==
  IF value.t \in {"undefined", "null"} THEN JSONstringify(Null)
  ELSE IF value.t = "string" THEN value.s
  ELSE JSONstringify(value)

\* RedisBackend._parseValue: the parsed value, or the raw text when it is not JSON
Redis_parseValue(text) ==
  LET r == JSONparse(text) IN IF r.ok THEN r.v ELSE Str(text)

\* RedisBackend.save: nothing for an empty data, else MSET of the entries of data
RedisSave(st, data) ==
  IF DOMAIN data = {} THEN st
  ELSE [k \in DOMAIN st \cup DOMAIN data |->
          IF k \in DOMAIN data THEN Redis_stringifyValue(data[k]) ELSE st[k]]

RedisFetch(st) == [k \in DOMAIN st |-> Redis_parseValue(st[k])]

\* the value field of a document: BSON stores undefined as null
Bson(value) == IF value.t = "undefined" THEN Null ELSE value

\* MongoDBBackend.save: one upsert for each entry of data
MongoSave(st, data) ==
  [k \in DOMAIN st \cup DOMAIN data |-> IF k \in DOMAIN data THEN Bson(data[k]) ELSE st[k]]

MongoFetch(st) == st

\* this.backend.save(data), when it succeeds
BackendSave(kind, st, data) ==
  CASE kind = "file" -> FileSave(st, data)
    [] kind = "sqlite" -> SQLiteSave(st, data)
    [] kind = "redis" -> RedisSave(st, data)
    [] kind = "mongodb" -> MongoSave(st, data)
    [] OTHER -> st

\* this.backend.fetch()
BackendFetch(kind, st) ==
  CASE kind = "file" -> FileFetch(st)
    [] kind = "sqlite" -> SQLiteFetch(st)
    [] kind = "redis" -> RedisFetch(st)
    [] kind = "mongodb" -> MongoFetch(st)
    [] OTHER -> NoProps

----------------------------------------------------------------------------
(* UniCache (src/UniCache.js).  A facade call runs to its first await that *)
(* suspends, which is the backend.save of sync(); the call is then in      *)
(* flight until the save settles.                                          *)

\* facade calls issued in one behaviour
MaxOps == 3

\* facade calls issued in one behaviour of the sync protocol
MaxSyncOps == 4

\* sync() calls suspended at backend.save at one time
MaxInflight == 2

\* the syncNow argument of a mutating call, "undefined" when it is left out
SyncNowArgs == {"undefined", "true", "false"}

\* syncNow = this.options.syncOnWrite: the default applies when the argument is
\* left out
SyncNow(arg) == IF arg = "undefined" THEN options.syncOnWrite ELSE arg = "true"

\* sync, lines 439-442: no backend is attached
NoBackendNever(attached) == FALSE

NoBackend(attached) == attached = "null"

\* sync, line 443: nothing to write
SyncSkipsNever(dirty, forceSync) == FALSE

SyncSkips(dirty, forceSync) == ~dirty /\ ~forceSync

\* sync, lines 452-457: the catch block leaves this.isDirty as it is
DirtyClearedOnFailure(dirty) == FALSE

DirtyAfterFailedSave(dirty) == dirty

NoKey == ArrayKey(<<>>)

NoAfter ==
  [op |-> "none", key |-> NoKey, val |-> Undefined, threw |-> FALSE, phase |-> "none"]

\* the step whose description is e, as the step after it records it
AfterOf(e) ==
  [op |-> e.op, key |-> e.key, val |-> e.val, threw |-> e.threw, phase |-> e.phase]

\* what a step did: the call (op, key, val, arg, force), whether it changed the
\* snapshot (applied), threw before that (threw), invoked sync (syncCalled, with
\* isDirty as sync found it) and called backend.save (save: "none", "pending", "ok",
\* "failed"); phase: "pending", "resolved", "rejected"; isCall: the step is the call
\* itself, not the settling of its save; got: the value returned; after: the call
\* whose step came just before; prevSync: since.lastSync before the step;
\* dirtyAtSettle: isDirty when the save settled; more: the call goes on after its
\* sync; persisted: the call that had resolved when this instance was constructed;
\* count: the count of add and subtract; was: what get(key) would have returned before
\* the call; adds: the counts of the add calls made one after the other on key since
\* it was absent
NoCev ==
  [op |-> "none", key |-> NoKey, val |-> Undefined, arg |-> "undefined", force |-> FALSE,
   applied |-> FALSE, threw |-> FALSE, syncCalled |-> FALSE, dirtyAtSync |-> FALSE,
   save |-> "none", phase |-> "none", isCall |-> FALSE, got |-> Undefined,
   after |-> NoAfter, prevSync |-> "none", dirtyAtSettle |-> FALSE, more |-> FALSE,
   persisted |-> NoAfter, count |-> Undefined, was |-> Undefined, adds |-> <<>>,
   over |-> 0]

\* a call with nothing filled in: the snapshot and the flag as they are
CallOf(op) ==
  [op |-> op, key |-> NoKey, val |-> Undefined, arg |-> "undefined", force |-> FALSE,
   applied |-> FALSE, threw |-> FALSE, sync |-> FALSE,
   heap |-> Heap(inMemoryData, prototypes), dirty |-> isDirty, got |-> Undefined,
   more |-> FALSE, count |-> Undefined, was |-> Undefined, over |-> 0]

\* One facade call c, from its entry to its return or to the backend.save of the sync
\* it invokes (lines 438-449).  The copy handed to save is { ...this.inMemoryData },
\* taken as the value of the snapshot at the call.
Facade(c) ==
  LET saves == c.sync /\ ~NoBackend(backend) /\ ~SyncSkips(c.dirty, c.force)
      id == CHOOSE i \in 1..MaxInflight : \A f \in inflight : f.id # i
      e == [NoCev EXCEPT !.op = c.op, !.key = c.key, !.val = c.val, !.arg = c.arg,
                         !.force = c.force, !.applied = c.applied, !.threw = c.threw,
                         !.syncCalled = c.sync, !.dirtyAtSync = c.dirty,
                         !.save = IF saves THEN "pending" ELSE "none",
                         !.phase = IF c.threw THEN "rejected"
                                   ELSE IF saves \/ c.more THEN "pending" ELSE "resolved",
                         !.isCall = TRUE, !.got = c.got,
                         !.after = IF (c.op = "get" /\ cev.isCall) \/ cev.op \in {"init", "close"}
                                   THEN AfterOf(cev)
                                   ELSE NoAfter,
                         !.prevSync = since.lastSync, !.more = c.more,
                         !.persisted = IF cev.op = "init" THEN cev.persisted ELSE NoAfter,
                         !.count = c.count, !.was = c.was, !.over = c.over,
                         !.adds = IF c.op = "add" /\ c.was = Undefined THEN <<c.count>>
                                  ELSE IF cev.op = "add" /\ cev.isCall /\ cev.key = c.key
                                          /\ cev.adds # <<>> /\ c.op \in {"add", "get"}
                                  THEN IF c.op = "add" THEN Append(cev.adds, c.count)
                                       ELSE cev.adds
                                  ELSE <<>>]
      marked == IF c.applied THEN {[f EXCEPT !.mut = TRUE] : f \in inflight} ELSE inflight
  IN /\ saves => Cardinality(inflight) < MaxInflight
     /\ nops' = nops + 1
     /\ inMemoryData' = c.heap["data"]
     /\ prototypes' = [r \in DOMAIN prototypes |-> c.heap[r]]
     /\ isDirty' = c.dirty
     /\ inflight' = IF saves
                    THEN marked \cup {[id |-> id, ev |-> e, copy |-> c.heap["data"].p,
                                       mut |-> FALSE]}
                    ELSE marked
     /\ cev' = e
     /\ since' = [unsaved |-> since.unsaved \/ c.applied,
                  lastSync |-> IF c.applied THEN "none"
                               ELSE IF c.op = "sync" /\ ~saves /\ since.lastSync = "none"
                               THEN "skipped"
                               ELSE since.lastSync]
     /\ UNCHANGED <<backend, options, store, saved>>

\* get(key), lines 304-306
UniCache_get(key) ==
  Facade([CallOf("get") EXCEPT !.key = key, !.got = getProperties(inMemoryData, key)])

\* this.isDirty = true
MarkDirtyNot(dirty) == dirty

MarkDirty(dirty) == TRUE

\* a mutating call after its change of the snapshot: this.isDirty = true, then
\* if (syncNow) await this.sync(); r is what setProperties made, a call that threw in
\* it rejects there
MutationCall(op, key, val, arg, r) ==
  IF r.threw
  THEN [CallOf(op) EXCEPT !.key = key, !.val = val, !.arg = arg, !.threw = TRUE,
                          !.heap = r.heap, !.was = getProperties(inMemoryData, key),
                          !.over = ScalarPrefix(inMemoryData, PathOf(key))]
  ELSE [CallOf(op) EXCEPT !.key = key, !.val = val, !.arg = arg, !.applied = TRUE,
                          !.sync = SyncNow(arg), !.heap = r.heap,
                          !.dirty = MarkDirty(isDirty),
                          !.was = getProperties(inMemoryData, key),
                          !.over = ScalarPrefix(inMemoryData, PathOf(key))]

Mutation(op, key, val, arg, r) == Facade(MutationCall(op, key, val, arg, r))

\* set(key, value, syncNow), lines 308-314
UniCache_set(key, value, arg) ==
  Mutation("set", key, value, arg, setProperties(Heap(inMemoryData, prototypes), key, value))

RECURSIVE HasPath(_, _, _)
\* delete, lines 335-347: every name of the path is an own property
HasPath(current, props, i) ==
  IF i > Len(props) THEN TRUE
  ELSE /\ IsContainer(current)
       /\ props[i] \in DOMAIN current.p
       /\ HasPath(current.p[props[i]], props, i + 1)

RECURSIVE RemoveAt(_, _, _)
\* delete parent[lastProp]
RemoveAt(v, props, i) ==
  IF i = Len(props) THEN WithoutProp(v, props[i])
  ELSE [v EXCEPT !.p[props[i]] = RemoveAt(v.p[props[i]], props, i + 1)]

\* delete, line 339: the return for a path that is not there
DirtyMarkedOnAbsentDelete(dirty) == TRUE

DirtyAfterAbsentDelete(dirty) == dirty

\* delete(key, syncNow), lines 328-356: nothing happens for a path that is not there,
\* and for one whose last name is the empty string (lastProp is falsy)
UniCache_delete(key, arg) ==
  LET props == PathOf(key) IN
  IF HasPath(inMemoryData, props, 1) /\ Len(props) > 0 /\ props[Len(props)] # ""
  THEN Mutation("delete", key, Undefined, arg,
                [heap |-> Heap(RemoveAt(inMemoryData, props, 1), prototypes),
                 threw |-> FALSE])
  ELSE Facade([CallOf("delete") EXCEPT !.key = key, !.arg = arg,
                                       !.dirty = DirtyAfterAbsentDelete(isDirty)])

\* clear(syncNow), lines 362-384: the flag is set whatever the snapshot held
UniCache_clear(arg) ==
  Mutation("clear", NoKey, Undefined, arg,
           [heap |-> Heap(EmptyObj, prototypes), threw |-> FALSE])

\* Number(v)
ToNumber(v) ==
  CASE v.t = "number" -> v
    [] v.t = "null" -> Num(0)
    [] v.t = "string" /\ v.s = <<>> -> Num(0)
    [] v.t = "string" /\ v.s # <<>> /\ (\A i \in DOMAIN v.s : IsDigit(v.s[i])) ->
         Num(LeadingDigits(v.s, 1, 0))
    [] v.t = "array" /\ v.e = <<>> -> Num(0)
    [] v.t = "array" /\ Len(v.e) = 1 /\ v.e[1].t = "number" -> v.e[1]
    [] OTHER -> NaN

\* Number(v) || 0
NumberOrZero(v) == IF ToNumber(v).t = "NaN" THEN 0 ELSE ToNumber(v).n

\* currentValue + sign * Number(count)
Sum(currentValue, count, sign) ==
  IF ToNumber(count).t = "NaN" THEN NaN ELSE Num(currentValue + sign * ToNumber(count).n)

\* add, lines 399-400: the value written
Added(key, count) == Sum(NumberOrZero(getProperties(inMemoryData, key)), count, 1)

\* add(key, count, syncNow), lines 398-405
UniCache_add(key, count, arg) ==
  Facade([MutationCall("add", key, Added(key, count), arg,
                       setProperties(Heap(inMemoryData, prototypes), key, Added(key, count)))
            EXCEPT !.count = count])

\* subtract, lines 408-409: the value written
SubtractedAsAdded(key, count) ==
  Sum(NumberOrZero(getProperties(inMemoryData, key)), count, 1)

Subtracted(key, count) ==
  Sum(NumberOrZero(getProperties(inMemoryData, key)), count, 0 - 1)

\* subtract(key, count, syncNow), lines 407-414
UniCache_subtract(key, count, arg) ==
  Facade([MutationCall("subtract", key, Subtracted(key, count), arg,
                       setProperties(Heap(inMemoryData, prototypes), key,
                                     Subtracted(key, count)))
            EXCEPT !.count = count])

\* push(key, element, syncNow), lines 416-427: the array at key gets the element; when
\* there is none a new array is set at key and gets it
PushedFirst(arr, element) == [arr EXCEPT !.e = <<element>> \o @]

\* arr.push(element), line 422
Pushed(arr, element) == [arr EXCEPT !.e = Append(@, element)]

UniCache_push(key, element, arg) ==
  LET arr == getProperties(inMemoryData, key)
      props == PathOf(key)
  IN IF arr.t = "array" /\ Len(props) > 0
     THEN Mutation("push", key, element, arg,
                   [heap |-> Heap(PutAt(inMemoryData, SubSeq(props, 1, Len(props) - 1), 1,
                                        props[Len(props)], Pushed(arr, element)),
                                  prototypes),
                    threw |-> FALSE])
     ELSE Mutation("push", key, element, arg,
                   setProperties(Heap(inMemoryData, prototypes), key,
                                 Pushed(Arr(<<>>), element)))

\* sync(forceSync), lines 438-449
UniCache_sync(forceSync) ==
  Facade([CallOf("sync") EXCEPT !.force = forceSync, !.sync = TRUE])

\* sync, lines 449-451: backend.save has resolved; the flag is reset and the call
\* that awaited the sync resolves
sync_saved(id) ==
  \E f \in inflight :
    /\ f.id = id
    /\ store' = BackendSave(backend, store, f.copy)
    /\ isDirty' = FALSE
    /\ inflight' = inflight \ {f}
    /\ cev' = [f.ev EXCEPT !.save = "ok",
                           !.phase = IF f.ev.more THEN "pending" ELSE "resolved",
                           !.isCall = FALSE, !.dirtyAtSettle = isDirty]
    /\ since' = [unsaved |-> f.mut,
                 lastSync |-> IF f.ev.op = "sync" /\ ~f.mut THEN "saved"
                              ELSE since.lastSync]
    /\ UNCHANGED <<inMemoryData, prototypes, backend, options, nops, saved>>

\* sync, lines 452-457: backend.save has rejected; the error is thrown again, so
\* the call that awaited the sync rejects
sync_failed(id) ==
  \E f \in inflight :
    /\ f.id = id
    /\ isDirty' = DirtyAfterFailedSave(isDirty)
    /\ inflight' = inflight \ {f}
    /\ cev' = [f.ev EXCEPT !.save = "failed", !.phase = "rejected", !.isCall = FALSE,
                           !.dirtyAtSettle = isDirty]
    /\ UNCHANGED <<inMemoryData, prototypes, backend, options, store, nops, since, saved>>

\* the facade as its constructor leaves it, the prototypes untouched
Constructed ==
  /\ inMemoryData = EmptyObj
  /\ prototypes = CleanPrototypes
  /\ isDirty = FALSE
  /\ inflight = {}
  /\ nops = 0
  /\ cev = NoCev
  /\ since = [unsaved |-> FALSE, lastSync |-> "none"]
  /\ saved = <<>>
  /\ syncIntervalId = "set"
  /\ events = <<>>
  /\ unhandled = FALSE

\* this.options: the cache type asked for and the two sync policies
Options(type, onWrite, onClose) ==
  [cacheType |-> type, syncOnWrite |-> onWrite, syncOnClose |-> onClose]

\* no init() and no close() called yet.  init: "none", "connect", "fetch" or "done";
\* close: "none", "sync" or "backend", what the close() under way awaits; closes: the
\* close() calls that have resolved; at: nops when close() was last called; again:
\* the last close() was called right after a close() had resolved, with no call made
\* since that one was called
NoLifecycle ==
  [init |-> "none", close |-> "none", closes |-> 0, at |-> 0, again |-> FALSE,
   load |-> "none"]

\* no backend attached
MemoryOnly ==
  /\ backend = "null"
  /\ options = Options("memory", FALSE, FALSE)
  /\ store = NoProps
  /\ cacheType = "memory"
  /\ connected = "none"
  /\ lifecycle = NoLifecycle

\* after init(): memory-only, or a backend attached that has nothing persisted
InitCache ==
  /\ SQLiteConstructed
  /\ MongoDBConstructed
  /\ Constructed
  /\ backend \in {"null"} \cup Kinds
  /\ cacheType = (IF backend = "null" THEN "memory" ELSE backend)
  /\ options \in {Options(cacheType, onWrite, FALSE) : onWrite \in BOOLEAN}
  /\ store = EmptyStore(backend)
  /\ connected = (IF backend = "null" THEN "none" ELSE "open")
  /\ lifecycle = [NoLifecycle EXCEPT !.init = "done"]

\* the key and the arguments the calls of the model are made with
CacheKey == StringKey(<<"a">>)

ListKey == StringKey(<<"b">>)

CacheValue == Num(1)

Element == Num(7)

NextCache ==
  \/ \E arg \in SyncNowArgs :
       nops < MaxOps /\ UniCache_set(CacheKey, CacheValue, arg) /\ UNCHANGED <<sqVars, lifeVars, mongoVars>>
  \/ \E arg \in SyncNowArgs :
       nops < MaxOps /\ UniCache_delete(CacheKey, arg) /\ UNCHANGED <<sqVars, lifeVars, mongoVars>>
  \/ \E arg \in SyncNowArgs :
       nops < MaxOps /\ UniCache_clear(arg) /\ UNCHANGED <<sqVars, lifeVars, mongoVars>>
  \/ \E arg \in SyncNowArgs :
       nops < MaxOps /\ UniCache_add(CacheKey, CacheValue, arg) /\ UNCHANGED <<sqVars, lifeVars, mongoVars>>
  \/ \E arg \in SyncNowArgs :
       nops < MaxOps /\ UniCache_subtract(CacheKey, CacheValue, arg) /\ UNCHANGED <<sqVars, lifeVars, mongoVars>>
  \/ \E arg \in SyncNowArgs :
       nops < MaxOps /\ UniCache_push(ListKey, Element, arg) /\ UNCHANGED <<sqVars, lifeVars, mongoVars>>
  \/ \E forceSync \in BOOLEAN :
       nops < MaxOps /\ UniCache_sync(forceSync) /\ UNCHANGED <<sqVars, lifeVars, mongoVars>>
  \/ \E id \in 1..MaxInflight : sync_saved(id) /\ UNCHANGED <<sqVars, lifeVars, mongoVars>>
  \/ \E id \in 1..MaxInflight : sync_failed(id) /\ UNCHANGED <<sqVars, lifeVars, mongoVars>>

\* the sync protocol: calls that set the flag, sync calls, and saves that settle
NextSync ==
  \/ \E arg \in {"true", "false"} :
       nops < MaxSyncOps /\ UniCache_set(CacheKey, CacheValue, arg) /\ UNCHANGED <<sqVars, lifeVars, mongoVars>>
  \/ \E arg \in {"true", "false"} :
       nops < MaxSyncOps /\ UniCache_delete(CacheKey, arg) /\ UNCHANGED <<sqVars, lifeVars, mongoVars>>
  \/ \E forceSync \in BOOLEAN :
       nops < MaxSyncOps /\ UniCache_sync(forceSync) /\ UNCHANGED <<sqVars, lifeVars, mongoVars>>
  \/ \E id \in 1..MaxInflight : sync_saved(id) /\ UNCHANGED <<sqVars, lifeVars, mongoVars>>
  \/ \E id \in 1..MaxInflight : sync_failed(id) /\ UNCHANGED <<sqVars, lifeVars, mongoVars>>

----------------------------------------------------------------------------
(* The accessors on every snapshot: one set(key, value), then get(key).    *)

PathNames == {"a", "b", "__proto__"}

PathSeqs == UNION {[1..n -> PathNames] : n \in 1..MaxPathLen}

PathKeys == {ArrayKey(names) : names \in PathSeqs}
            \cup {StringKey(DotJoin(names, 1)) : names \in PathSeqs}

\* the empty list of segments, []
EmptyPath == ArrayKey(<<>>)

PathValues == {Num(1), Str(<<"x">>), Null, EmptyObj, Arr(<<Num(7)>>)}

\* what a top-level property of the snapshot holds before the set
PathLeaves ==
  {Num(1), Str(<<"x">>), Null, Arr(<<>>), EmptyObj, Obj([k \in {"b"} |-> Num(1)])}

PathSnapshots == {Obj(f) : f \in UNION {[D -> PathLeaves] : D \in SUBSET {"a", "b"}}}

InitPath ==
  /\ SQLiteConstructed
  /\ MongoDBConstructed
  /\ inMemoryData \in PathSnapshots
  /\ prototypes = CleanPrototypes
  /\ isDirty \in BOOLEAN
  /\ inflight = {}
  /\ nops = 0
  /\ cev = NoCev
  /\ since = [unsaved |-> isDirty, lastSync |-> "none"]
  /\ saved = <<>>
  /\ syncIntervalId = "set"
  /\ events = <<>>
  /\ unhandled = FALSE
  /\ MemoryOnly

NextPath ==
  \/ \E key \in PathKeys \cup {EmptyPath}, value \in PathValues :
       nops = 0 /\ UniCache_set(key, value, "undefined") /\ UNCHANGED <<sqVars, lifeVars, mongoVars>>
  \/ nops = 1 /\ cev.op = "set" /\ UniCache_get(cev.key) /\ UNCHANGED <<sqVars, lifeVars, mongoVars>>
  \/ \E key \in PathKeys \cup {EmptyPath} :
       nops = 0 /\ UniCache_get(key) /\ UNCHANGED <<sqVars, lifeVars, mongoVars>>

----------------------------------------------------------------------------
(* save and fetch called on a backend itself.                              *)

\* save calls on the backend in one behaviour
MaxSaves == 2

SaveValues == {Num(1), Str(<<"1">>), Str(<<"x">>), Arr(<<Num(7)>>)}

SaveSnapshots == UNION {[D -> SaveValues] : D \in SUBSET {"a", "b"}}

\* backend.save(data) resolves
Backend_save(data) ==
  /\ store' = BackendSave(backend, store, data)
  /\ saved' = Append(saved, data)
  /\ cev' = [NoCev EXCEPT !.op = "backend.save", !.val = Obj(data), !.isCall = TRUE,
                          !.phase = "resolved"]
  /\ UNCHANGED <<inMemoryData, prototypes, isDirty, backend, options, inflight, nops, since>>

\* backend.fetch() resolves
Backend_fetch ==
  /\ cev' = [NoCev EXCEPT !.op = "backend.fetch", !.isCall = TRUE, !.phase = "resolved",
                          !.got = Obj(BackendFetch(backend, store))]
  /\ UNCHANGED <<inMemoryData, prototypes, isDirty, backend, options, store, inflight, nops,
                 since, saved>>

InitSave ==
  /\ SQLiteConstructed
  /\ MongoDBConstructed
  /\ Constructed
  /\ backend \in Kinds
  /\ cacheType = backend
  /\ options = Options(cacheType, FALSE, FALSE)
  /\ store = EmptyStore(backend)
  /\ connected = "open"
  /\ lifecycle = NoLifecycle

NextSave ==
  \/ \E data \in SaveSnapshots :
       Len(saved) < MaxSaves /\ Backend_save(data) /\ UNCHANGED <<sqVars, lifeVars, mongoVars>>
  \/ Backend_fetch /\ UNCHANGED <<sqVars, lifeVars, mongoVars>>

----------------------------------------------------------------------------
(* The life of a UniCache: the constructor, init(), the recurring timer    *)
(* and close().  Calls are made before init() or after it has resolved.    *)

\* facade calls and timer ticks in one behaviour of the lifecycle
MaxLifeOps == 3

\* close() calls in one behaviour
MaxCloses == 2

\* options.cacheType: the kind of a backend, 'valkey', 'memory', or another name
CacheTypes == Kinds \cup {"memory", "valkey", "other"}

\* initializeBackend, lines 92-154: the backend the switch constructs for a type
BackendFor(type) ==
  IF type = "valkey" THEN "redis" ELSE IF type \in Kinds THEN type ELSE "null"

\* a step of the lifecycle, for cev
LifeStep(op, phase, isCall) ==
  [NoCev EXCEPT !.op = op, !.phase = phase, !.isCall = isCall, !.prevSync = since.lastSync,
                !.persisted = IF cev.op \in {"new", "init"} THEN cev.persisted ELSE NoAfter]

\* init() is not between its call and its return
InitSettled == lifecycle.init \in {"none", "done"}

\* this.backend = null in the catch block, line 191
BackendKept(attached) == attached

BackendAfterError(attached) == "null"

\* initializeBackend ends memory-only: lines 81-86 and 147-153 (stage "undefined":
\* nothing was thrown), or the catch block of lines 184-194 after an error thrown at
\* the stage
MemoryFallback(stage) ==
  /\ backend' = BackendAfterError(backend)
  /\ cacheType' = "memory"
  /\ isDirty' = FALSE
  /\ connected' = "none"
  /\ lifecycle' = [lifecycle EXCEPT !.init = "done"]
  /\ cev' = [LifeStep("init", "resolved", stage # "connect") EXCEPT
               !.threw = stage # "undefined", !.arg = stage]
  /\ UNCHANGED <<inMemoryData, prototypes, options, store, inflight, nops, since, saved,
                 syncIntervalId, events, unhandled>>

\* init(), lines 72-76, with initializeBackend up to its await of backend.connect();
\* constructs: requiring and constructing the backend succeeds
UniCache_init(constructs) ==
  /\ lifecycle.init = "none"
  /\ IF BackendFor(cacheType) = "null" THEN MemoryFallback("undefined")
     ELSE IF ~constructs THEN MemoryFallback("construct")
     ELSE /\ backend' = BackendFor(cacheType)
          /\ lifecycle' = [lifecycle EXCEPT !.init = "connect"]
          /\ cev' = LifeStep("init", "pending", TRUE)
          /\ UNCHANGED <<inMemoryData, prototypes, isDirty, options, store, inflight, nops,
                         since, saved, cacheType, syncIntervalId, connected, events,
                         unhandled>>

\* initializeBackend, lines 162-169: backend.connect() has resolved and
\* _loadInitialDataFromBackend awaits backend.fetch()
init_connected ==
  /\ lifecycle.init = "connect"
  /\ connected' = "open"
  /\ lifecycle' = [lifecycle EXCEPT !.init = "fetch"]
  /\ cev' = LifeStep("init", "pending", FALSE)
  /\ UNCHANGED <<inMemoryData, prototypes, isDirty, backend, options, store, inflight, nops,
                 since, saved, cacheType, syncIntervalId, events, unhandled>>

\* initializeBackend, lines 162 and 184-194: backend.connect() has rejected
init_connect_failed ==
  /\ lifecycle.init = "connect"
  /\ MemoryFallback("connect")

\* _loadInitialDataFromBackend, lines 207-213: the snapshot after the load
LoadedNothing(data) == EmptyObj

LoadedSnapshot(data) == IF DOMAIN data # {} THEN Obj(data) ELSE EmptyObj

\* _loadInitialDataFromBackend, lines 206-214: backend.fetch() has resolved
init_loaded ==
  /\ lifecycle.init = "fetch"
  /\ LET data == BackendFetch(backend, store) IN
       /\ inMemoryData' = LoadedSnapshot(data)
       /\ cev' = [LifeStep("init", "resolved", FALSE) EXCEPT !.got = Obj(data)]
  /\ isDirty' = FALSE
  /\ lifecycle' = [lifecycle EXCEPT
                     !.init = "done",
                     !.load = IF DOMAIN BackendFetch(backend, store) # {} THEN "data"
                              ELSE "empty"]
  /\ since' = [unsaved |-> FALSE, lastSync |-> "none"]
  /\ UNCHANGED <<prototypes, backend, options, store, inflight, nops, saved, cacheType,
                 syncIntervalId, connected, events, unhandled>>

\* (a variant of BackendAfterFetchError: the failed fetch drops the backend)
BackendDroppedOnFetchError(attached) == "null"

\* _loadInitialDataFromBackend, lines 215-221: the catch block leaves this.backend
BackendAfterFetchError(attached) == attached

\* _loadInitialDataFromBackend, lines 215-221: backend.fetch() has rejected
init_load_failed ==
  /\ lifecycle.init = "fetch"
  /\ backend' = BackendAfterFetchError(backend)
  /\ inMemoryData' = EmptyObj
  /\ isDirty' = FALSE
  /\ lifecycle' = [lifecycle EXCEPT !.init = "done", !.load = "failed"]
  /\ cev' = [LifeStep("init", "resolved", FALSE) EXCEPT !.threw = TRUE, !.arg = "fetch"]
  /\ UNCHANGED <<prototypes, options, store, inflight, nops, since, saved,
                 cacheType, syncIntervalId, connected, events, unhandled>>

\* the constructor, lines 43-70: a fresh instance made with the options of the one
\* before it, which has no call under way
UniCache_new ==
  /\ InitSettled
  /\ lifecycle.close = "none"
  /\ inflight = {}
  /\ inMemoryData' = EmptyObj
  /\ isDirty' = FALSE
  /\ backend' = "null"
  /\ cacheType' = options.cacheType
  /\ syncIntervalId' = "set"
  /\ connected' = "none"
  /\ lifecycle' = NoLifecycle
  /\ events' = <<>>
  /\ since' = [unsaved |-> FALSE, lastSync |-> "none"]
  /\ cev' = [LifeStep("new", "resolved", TRUE) EXCEPT
               !.persisted = IF cev.save = "ok" /\ cev.phase = "resolved"
                             THEN AfterOf(cev) ELSE NoAfter]
  /\ UNCHANGED <<prototypes, options, store, inflight, nops, saved, unhandled>>

\* clearInterval(this.syncIntervalId), line 463
ClearIntervalNot(id) == id

ClearInterval(id) == "cleared"

\* the callback of setInterval, line 64: () => this.sync()
timer_tick ==
  /\ syncIntervalId = "set"
  /\ InitSettled
  /\ Facade([CallOf("timer") EXCEPT !.sync = TRUE])
  /\ UNCHANGED lifeVars

\* close(), line 467: await this.sync() passes no forceSync
CloseForcesSync == TRUE

CloseForceSync == FALSE

\* close(), lines 460-468 and 480: the timer is cleared and, with syncOnClose and a
\* backend, sync() is called; with no backend the call returns
UniCache_close ==
  LET syncs == options.syncOnClose /\ backend # "null"
      saves == syncs /\ ~SyncSkips(isDirty, CloseForceSync)
  IN /\ InitSettled
     /\ lifecycle.close = "none"
     /\ lifecycle.closes < MaxCloses
     /\ Facade([CallOf("close") EXCEPT !.sync = syncs, !.force = CloseForceSync,
                                       !.more = backend # "null"])
     /\ syncIntervalId' = ClearInterval(syncIntervalId)
     /\ events' = IF saves THEN <<"clearInterval", "backend.save">> ELSE <<"clearInterval">>
     /\ lifecycle' =
          [lifecycle EXCEPT
             !.close = IF saves THEN "sync" ELSE IF backend # "null" THEN "backend" ELSE "none",
             !.closes = IF backend = "null" THEN @ + 1 ELSE @,
             !.at = nops + 1,
             !.again = (cev.op = "close" /\ cev.phase = "resolved" /\ nops = lifecycle.at)]
     /\ UNCHANGED <<cacheType, connected, unhandled>>

\* backend.close(): FileBackend.close does nothing; the others close an open
\* connection, which stays as it is when closing it fails
BackendClose(kind, conn, ok) ==
  IF kind # "file" /\ conn = "open" /\ ok THEN "closed" ELSE conn

\* close(), lines 470-480: backend.close() is called and settles, its error is logged
\* only, and close() returns.  SQLiteBackend.close waits for the mutex a save holds.
close_backend(ok) ==
  /\ lifecycle.close = "backend"
  /\ backend = "sqlite" => inflight = {}
  /\ connected' = BackendClose(backend, connected, ok)
  /\ events' = Append(events, "backend.close")
  /\ lifecycle' = [lifecycle EXCEPT !.close = "none", !.closes = @ + 1]
  /\ cev' = [LifeStep("close", "resolved", FALSE) EXCEPT
               !.threw = (backend # "file" /\ connected = "open" /\ ~ok)]
  /\ UNCHANGED <<inMemoryData, prototypes, isDirty, backend, options, store, inflight, nops,
                 since, saved, cacheType, syncIntervalId, unhandled>>

\* the in-flight sync of the id
InFlight(id) == CHOOSE f \in inflight : f.id = id

\* a save resolves: sync_saved, and a close() that awaited the sync goes on to
\* backend.close().  FileBackend needs no connection and MongoDBBackend.save connects;
\* the two others need theirs.
Life_saved(id) ==
  /\ backend \in {"file", "mongodb"} \/ connected = "open"
  /\ sync_saved(id)
  /\ lifecycle' = IF InFlight(id).ev.op = "close"
                  THEN [lifecycle EXCEPT !.close = "backend"] ELSE lifecycle
  /\ UNCHANGED <<cacheType, syncIntervalId, connected, events, unhandled>>

\* (a variant of CloseAfterFailedSync: close() goes on to backend.close())
CloseGoesOnAfterFailedSync(stage) == "backend"

\* close(), line 467: await this.sync() rejects and close() rejects with it
CloseAfterFailedSync(stage) == "none"

\* a save rejects: sync_failed; a close() that awaited the sync rejects before
\* backend.close(), and nothing handles the promise the timer callback was given.
\* A save on a SQLiteBackend whose connection is closed never settles.
Life_failed(id) ==
  /\ backend = "sqlite" => connected = "open"
  /\ sync_failed(id)
  /\ lifecycle' = IF InFlight(id).ev.op = "close"
                  THEN [lifecycle EXCEPT !.close = CloseAfterFailedSync(@)] ELSE lifecycle
  /\ unhandled' = (unhandled \/ InFlight(id).ev.op = "timer")
  /\ UNCHANGED <<cacheType, syncIntervalId, connected, events>>

\* what the backend of a type holds when the instance is constructed: nothing, or
\* what an earlier instance saved
LifeStores(type) ==
  LET kind == BackendFor(type) IN
  IF kind = "null" THEN {NoProps}
  ELSE {EmptyStore(kind), BackendSave(kind, EmptyStore(kind), [k \in {"b"} |-> Num(7)])}

InitLife ==
  /\ SQLiteConstructed
  /\ MongoDBConstructed
  /\ Constructed
  /\ backend = "null"
  /\ options \in {Options(type, FALSE, onClose) : type \in CacheTypes, onClose \in BOOLEAN}
  /\ cacheType = options.cacheType
  /\ store \in LifeStores(cacheType)
  /\ connected = "none"
  /\ lifecycle = NoLifecycle

NextLife ==
  \/ \E constructs \in BOOLEAN : UniCache_init(constructs) /\ UNCHANGED <<sqVars, mongoVars>>
  \/ init_connected /\ UNCHANGED <<sqVars, mongoVars>>
  \/ init_connect_failed /\ UNCHANGED <<sqVars, mongoVars>>
  \/ init_loaded /\ UNCHANGED <<sqVars, mongoVars>>
  \/ init_load_failed /\ UNCHANGED <<sqVars, mongoVars>>
  \/ /\ InitSettled
     /\ nops < MaxLifeOps
     /\ UniCache_set(CacheKey, CacheValue, "false")
     /\ UNCHANGED <<sqVars, lifeVars, mongoVars>>
  \/ \E forceSync \in BOOLEAN :
       /\ InitSettled
       /\ nops < MaxLifeOps
       /\ UniCache_sync(forceSync)
       /\ UNCHANGED <<sqVars, lifeVars, mongoVars>>
  \/ nops < MaxLifeOps /\ timer_tick /\ UNCHANGED <<sqVars, mongoVars>>
  \/ nops < MaxLifeOps /\ UniCache_close /\ UNCHANGED <<sqVars, mongoVars>>
  \/ \E ok \in BOOLEAN : close_backend(ok) /\ UNCHANGED <<sqVars, mongoVars>>
  \/ \E id \in 1..MaxInflight : Life_saved(id) /\ UNCHANGED <<sqVars, mongoVars>>
  \/ \E id \in 1..MaxInflight : Life_failed(id) /\ UNCHANGED <<sqVars, mongoVars>>

----------------------------------------------------------------------------
(* Calls made before init() has completed: before it is called, and while  *)
(* it awaits backend.connect() or backend.fetch().                         *)

\* set calls in one behaviour of the start-up
MaxInitOps == 2

NextInit ==
  \/ \E constructs \in BOOLEAN : UniCache_init(constructs) /\ UNCHANGED <<sqVars, mongoVars>>
  \/ init_connected /\ UNCHANGED <<sqVars, mongoVars>>
  \/ init_connect_failed /\ UNCHANGED <<sqVars, mongoVars>>
  \/ init_loaded /\ UNCHANGED <<sqVars, mongoVars>>
  \/ init_load_failed /\ UNCHANGED <<sqVars, mongoVars>>
  \/ \E arg \in {"true", "false"} :
       /\ lifecycle.init # "done"
       /\ nops < MaxInitOps
       /\ UniCache_set(CacheKey, CacheValue, arg)
       /\ UNCHANGED <<sqVars, lifeVars, mongoVars>>
  \/ \E id \in 1..MaxInflight : Life_saved(id) /\ UNCHANGED <<sqVars, mongoVars>>
  \/ \E id \in 1..MaxInflight : Life_failed(id) /\ UNCHANGED <<sqVars, mongoVars>>

----------------------------------------------------------------------------
(* A file-backed cache, and the fresh instances made on its file.          *)

\* set calls in one behaviour of the reload
MaxReloadOps == 2

ReloadKeys ==
  {StringKey(<<"a">>), StringKey(<<"b">>), StringKey(<<"a", ".", "b">>), ArrayKey(<<"a", "b">>)}

ReloadValues == {Num(1), Str(<<"x">>), Null, Obj([k \in {"b"} |-> Num(1)]), Arr(<<Num(7)>>)}

\* after init() of a file-backed cache that found no file
InitReload ==
  /\ SQLiteConstructed
  /\ MongoDBConstructed
  /\ Constructed
  /\ backend = "file"
  /\ cacheType = "file"
  /\ options = Options("file", FALSE, FALSE)
  /\ store = NoFile
  /\ connected = "open"
  /\ lifecycle = [NoLifecycle EXCEPT !.init = "done"]

NextReload ==
  \/ \E key \in ReloadKeys, value \in ReloadValues :
       /\ InitSettled
       /\ nops < MaxReloadOps
       /\ UniCache_set(key, value, "true")
       /\ UNCHANGED <<sqVars, lifeVars, mongoVars>>
  \/ \E id \in 1..MaxInflight : Life_saved(id) /\ UNCHANGED <<sqVars, mongoVars>>
  \/ \E id \in 1..MaxInflight : Life_failed(id) /\ UNCHANGED <<sqVars, mongoVars>>
  \/ UniCache_new /\ UNCHANGED <<sqVars, mongoVars>>
  \/ \E constructs \in BOOLEAN : UniCache_init(constructs) /\ UNCHANGED <<sqVars, mongoVars>>
  \/ init_connected /\ UNCHANGED <<sqVars, mongoVars>>
  \/ init_connect_failed /\ UNCHANGED <<sqVars, mongoVars>>
  \/ init_loaded /\ UNCHANGED <<sqVars, mongoVars>>
  \/ init_load_failed /\ UNCHANGED <<sqVars, mongoVars>>
  \/ /\ cev.op = "init"
     /\ cev.phase = "resolved"
     /\ cev.persisted.op = "set"
     /\ UniCache_get(cev.persisted.key)
     /\ UNCHANGED <<sqVars, lifeVars, mongoVars>>

----------------------------------------------------------------------------
(* One mutating call on each snapshot, clean or dirty, with and without a  *)
(* backend.                                                                *)

\* mutating calls in one behaviour
MaxDirtyOps == 1

DirtySnapshots ==
  {EmptyObj, Obj([k \in {"a"} |-> Num(1)]), Obj([k \in {"a"} |-> Str(<<"x">>)]),
   Obj([k \in {"a"} |-> Obj([j \in {"b"} |-> Num(1)])]),
   Obj([k \in {"b"} |-> Arr(<<Num(7)>>)]), Obj([k \in {""} |-> Num(1)])}

DirtyKeys ==
  {StringKey(<<"a">>), StringKey(<<"a", ".", "b">>), ArrayKey(<<"b">>), StringKey(<<>>)}

\* the counts handed to add and subtract: an integer and a string that is no numeral
DirtyCounts == {CacheValue, Str(<<"x">>)}

\* after init() and the calls that left the snapshot: memory-only or on a file, the
\* file holding a clean snapshot
InitDirty ==
  /\ SQLiteConstructed
  /\ MongoDBConstructed
  /\ inMemoryData \in DirtySnapshots
  /\ prototypes = CleanPrototypes
  /\ isDirty \in BOOLEAN
  /\ backend \in {"null", "file"}
  /\ cacheType = (IF backend = "null" THEN "memory" ELSE backend)
  /\ options \in {Options(cacheType, onWrite, FALSE) : onWrite \in BOOLEAN}
  /\ store = (IF backend = "file" /\ ~isDirty /\ inMemoryData # EmptyObj
              THEN FileSave(NoFile, inMemoryData.p) ELSE EmptyStore(backend))
  /\ inflight = {}
  /\ nops = 0
  /\ cev = NoCev
  /\ since = [unsaved |-> isDirty, lastSync |-> "none"]
  /\ saved = <<>>
  /\ syncIntervalId = "set"
  /\ events = <<>>
  /\ unhandled = FALSE
  /\ connected = (IF backend = "null" THEN "none" ELSE "open")
  /\ lifecycle = [NoLifecycle EXCEPT !.init = "done"]

NextDirty ==
  \/ \E key \in DirtyKeys, arg \in SyncNowArgs :
       /\ nops < MaxDirtyOps
       /\ UniCache_set(key, CacheValue, arg)
       /\ UNCHANGED <<sqVars, lifeVars, mongoVars>>
  \/ \E key \in DirtyKeys, arg \in SyncNowArgs :
       /\ nops < MaxDirtyOps
       /\ UniCache_delete(key, arg)
       /\ UNCHANGED <<sqVars, lifeVars, mongoVars>>
  \/ \E arg \in SyncNowArgs :
       nops < MaxDirtyOps /\ UniCache_clear(arg) /\ UNCHANGED <<sqVars, lifeVars, mongoVars>>
  \/ \E key \in DirtyKeys, count \in DirtyCounts, arg \in SyncNowArgs :
       /\ nops < MaxDirtyOps
       /\ UniCache_add(key, count, arg)
       /\ UNCHANGED <<sqVars, lifeVars, mongoVars>>
  \/ \E key \in DirtyKeys, count \in DirtyCounts, arg \in SyncNowArgs :
       /\ nops < MaxDirtyOps
       /\ UniCache_subtract(key, count, arg)
       /\ UNCHANGED <<sqVars, lifeVars, mongoVars>>
  \/ \E key \in DirtyKeys, arg \in SyncNowArgs :
       /\ nops < MaxDirtyOps
       /\ UniCache_push(key, Element, arg)
       /\ UNCHANGED <<sqVars, lifeVars, mongoVars>>
  \/ \E id \in 1..MaxInflight : sync_saved(id) /\ UNCHANGED <<sqVars, lifeVars, mongoVars>>
  \/ \E id \in 1..MaxInflight : sync_failed(id) /\ UNCHANGED <<sqVars, lifeVars, mongoVars>>

----------------------------------------------------------------------------
(* Counters in memory: add, subtract and get on each snapshot.             *)

\* calls in one behaviour of the counters
MaxCounterOps == 3

CounterKeys == {StringKey(<<"a">>), StringKey(<<"a", ".", "b">>)}

\* the integers passed as count
Counts == {Num(0 - 1), Num(0), Num(2)}

\* what the snapshot holds at a before the calls
CounterLeaves ==
  {Num(5), Str(<<"x">>), Str(<<"1", "2">>), Null, Arr(<<>>), Arr(<<Num(7)>>),
   Obj([k \in {"b"} |-> Num(3)]), Obj([k \in {"b"} |-> Str(<<"x">>)])}

CounterSnapshots == {EmptyObj} \cup {Obj([k \in {"a"} |-> v]) : v \in CounterLeaves}

InitCounter ==
  /\ SQLiteConstructed
  /\ MongoDBConstructed
  /\ inMemoryData \in CounterSnapshots
  /\ prototypes = CleanPrototypes
  /\ isDirty = (inMemoryData # EmptyObj)
  /\ inflight = {}
  /\ nops = 0
  /\ cev = NoCev
  /\ since = [unsaved |-> isDirty, lastSync |-> "none"]
  /\ saved = <<>>
  /\ syncIntervalId = "set"
  /\ events = <<>>
  /\ unhandled = FALSE
  /\ MemoryOnly

NextCounter ==
  \/ \E key \in CounterKeys, count \in Counts :
       /\ nops < MaxCounterOps
       /\ UniCache_add(key, count, "undefined")
       /\ UNCHANGED <<sqVars, lifeVars, mongoVars>>
  \/ \E key \in CounterKeys, count \in Counts :
       /\ nops < MaxCounterOps
       /\ UniCache_subtract(key, count, "undefined")
       /\ UNCHANGED <<sqVars, lifeVars, mongoVars>>
  \/ \E key \in CounterKeys :
       nops < MaxCounterOps /\ UniCache_get(key) /\ UNCHANGED <<sqVars, lifeVars, mongoVars>>

----------------------------------------------------------------------------
(* Lists in memory: push and get on each snapshot.                         *)

\* calls in one behaviour of the lists
MaxPushOps == 3

PushKeys == {StringKey(<<"a">>), StringKey(<<"a", ".", "b">>), ArrayKey(<<"b">>)}

Elements == {Num(7), Str(<<"x">>), Null}

\* what the snapshot holds at a before the calls
PushLeaves ==
  {Num(5), Str(<<"x">>), Null, Arr(<<>>), Arr(<<Num(1), Num(2)>>), EmptyObj,
   Obj([k \in {"b"} |-> Num(3)]), Obj([k \in {"b"} |-> Arr(<<Num(1)>>)])}

PushSnapshots == {EmptyObj} \cup {Obj([k \in {"a"} |-> v]) : v \in PushLeaves}

InitPush ==
  /\ SQLiteConstructed
  /\ MongoDBConstructed
  /\ inMemoryData \in PushSnapshots
  /\ prototypes = CleanPrototypes
  /\ isDirty = (inMemoryData # EmptyObj)
  /\ inflight = {}
  /\ nops = 0
  /\ cev = NoCev
  /\ since = [unsaved |-> isDirty, lastSync |-> "none"]
  /\ saved = <<>>
  /\ syncIntervalId = "set"
  /\ events = <<>>
  /\ unhandled = FALSE
  /\ MemoryOnly

NextPush ==
  \/ \E key \in PushKeys, element \in Elements :
       /\ nops < MaxPushOps
       /\ UniCache_push(key, element, "undefined")
       /\ UNCHANGED <<sqVars, lifeVars, mongoVars>>
  \/ \E key \in PushKeys :
       nops < MaxPushOps /\ UniCache_get(key) /\ UNCHANGED <<sqVars, lifeVars, mongoVars>>

----------------------------------------------------------------------------
(* MongoDBBackend (src/backends/MongoDBBackend.js): connect, and the calls  *)
(* that use the collection after it.                                       *)

\* the call of p settles
MongoSettle(p, op, ok, err) ==
  /\ mpc' = [mpc EXCEPT ![p] = "idle"]
  /\ mcall' = [mcall EXCEPT ![p] = "none"]
  /\ mev' = [p |-> p, op |-> op, ok |-> ok, err |-> err]

\* connect() returns to the call op of p: a connect() call resolves, any other call
\* goes on to use this.collection
MongoConnectReturn(p, op) ==
  IF op = "connect"
  THEN MongoSettle(p, op, TRUE, "")
  ELSE /\ mpc' = [mpc EXCEPT ![p] = "use"]
       /\ mcall' = [mcall EXCEPT ![p] = op]
       /\ UNCHANGED mev

\* connect, line 20: if (this.client) return
ClientSet(c) == c # "null"

\* connect(), lines 20-22, called on its own or first thing in save and fetch: returns
\* at once when this.client is set, else constructs the client and awaits its connect()
MongoDB_connect(p, op) ==
  /\ mpc[p] = "idle"
  /\ nmcalls < MaxMongoCalls
  /\ nmcalls' = nmcalls + 1
  /\ IF ClientSet(client)
     THEN MongoConnectReturn(p, op) /\ UNCHANGED client
     ELSE /\ client' = "set"
          /\ mpc' = [mpc EXCEPT ![p] = "cn_await"]
          /\ mcall' = [mcall EXCEPT ![p] = op]
          /\ UNCHANGED mev
  /\ UNCHANGED <<collection, nmfaults>>

\* connect(), lines 22-23: client.connect() has resolved and this.collection is taken
\* from this.client, which close() may have set to null meanwhile
connect_resolved(p) ==
  /\ mpc[p] = "cn_await"
  /\ IF client = "null"
     THEN MongoSettle(p, mcall[p], FALSE, "TypeError") /\ UNCHANGED collection
     ELSE collection' = "set" /\ MongoConnectReturn(p, mcall[p])
  /\ UNCHANGED <<client, nmcalls, nmfaults>>

\* connect(), line 22: client.connect() has rejected; this.client stays as assigned
connect_rejected(p) ==
  /\ mpc[p] = "cn_await"
  /\ nmfaults < MaxMongoFaults
  /\ nmfaults' = nmfaults + 1
  /\ MongoSettle(p, mcall[p], FALSE, "E_connect")
  /\ UNCHANGED <<client, collection, nmcalls>>

\* save, line 36, and fetch, line 42: this.collection.bulkWrite(...) and
\* this.collection.find(), a TypeError when this.collection is null
collection_use(p) ==
  /\ mpc[p] = "use"
  /\ IF collection = "null"
     THEN MongoSettle(p, mcall[p], FALSE, "TypeError") /\ UNCHANGED nmfaults
     ELSE \/ MongoSettle(p, mcall[p], TRUE, "") /\ UNCHANGED nmfaults
          \/ /\ nmfaults < MaxMongoFaults
             /\ nmfaults' = nmfaults + 1
             /\ MongoSettle(p, mcall[p], FALSE, "E_driver")
  /\ UNCHANGED <<client, collection, nmcalls>>

\* close(), lines 79-80: awaits client.close() when this.client is set
MongoDB_close(p) ==
  /\ mpc[p] = "idle"
  /\ nmcalls < MaxMongoCalls
  /\ nmcalls' = nmcalls + 1
  /\ IF ClientSet(client)
     THEN /\ mpc' = [mpc EXCEPT ![p] = "cz_await"]
          /\ mcall' = [mcall EXCEPT ![p] = "close"]
          /\ UNCHANGED mev
     ELSE MongoSettle(p, "close", TRUE, "")
  /\ UNCHANGED <<client, collection, nmfaults>>

\* close(), lines 80-82: client.close() has resolved and this.client is set to null;
\* this.collection is left as it is
close_resolved(p) ==
  /\ mpc[p] = "cz_await"
  /\ client' = "null"
  /\ MongoSettle(p, "close", TRUE, "")
  /\ UNCHANGED <<collection, nmcalls, nmfaults>>

NextMongo ==
  \E p \in MongoCallers :
    \/ MongoDB_connect(p, "connect") /\ UNCHANGED <<sqVars, cacheVars, lifeVars>>
    \/ MongoDB_connect(p, "save") /\ UNCHANGED <<sqVars, cacheVars, lifeVars>>
    \/ MongoDB_connect(p, "fetch") /\ UNCHANGED <<sqVars, cacheVars, lifeVars>>
    \/ connect_resolved(p) /\ UNCHANGED <<sqVars, cacheVars, lifeVars>>
    \/ connect_rejected(p) /\ UNCHANGED <<sqVars, cacheVars, lifeVars>>
    \/ collection_use(p) /\ UNCHANGED <<sqVars, cacheVars, lifeVars>>
    \/ MongoDB_close(p) /\ UNCHANGED <<sqVars, cacheVars, lifeVars>>
    \/ close_resolved(p) /\ UNCHANGED <<sqVars, cacheVars, lifeVars>>

----------------------------------------------------------------------------
(* The specifications.                                                     *)

InitSQ == SQLiteConstructed /\ MongoDBConstructed /\ Constructed /\ MemoryOnly

SpecSQ == InitSQ /\ [][NextSQ]_vars

SpecCache == InitCache /\ [][NextCache]_vars

SpecSync == InitCache /\ [][NextSync]_vars

SpecPath == InitPath /\ [][NextPath]_vars

SpecSave == InitSave /\ [][NextSave]_vars

SpecLife == InitLife /\ [][NextLife]_vars

SpecInit == InitLife /\ [][NextInit]_vars

SpecReload == InitReload /\ [][NextReload]_vars

SpecDirty == InitDirty /\ [][NextDirty]_vars

SpecCounter == InitCounter /\ [][NextCounter]_vars

SpecPush == InitPush /\ [][NextPush]_vars

SpecMongo == InitSQ /\ [][NextMongo]_vars

----------------------------------------------------------------------------
(* Claims about the dirty flag and sync, checked under SpecSync.           *)

\* C3: the meaning of the dirty flag.  In every state with no sync in flight, isDirty
\* is true exactly when a mutating call has changed the snapshot since the copy
\* handed to the last successful backend save was taken.
C3_DirtyMeaning == (inflight = {}) => (isDirty <=> since.unsaved)

\* C4: a failed sync never clears the dirty flag.  When the save of a sync rejects,
\* the call that awaited the sync rejects and isDirty is what it was when the save
\* rejected, so a flag that was set is still set; when the save resolves, the call
\* resolves and isDirty is false.
C4_FailedSyncKeepsDirty ==
  /\ cev.save = "failed" => (cev.phase = "rejected" /\ isDirty = cev.dirtyAtSettle)
  /\ cev.save = "ok" => (cev.phase = "resolved" /\ ~isDirty)

\* C4 witness: a set that asked for a sync has rejected because the save rejected,
\* and the flag is still set.
C4_Witness ==
  cev.op = "set" /\ cev.save = "failed" /\ cev.phase = "rejected" /\ isDirty

\* C5: dirty-skip.  A sync() call calls backend.save exactly when a backend is
\* attached and the flag is set or the sync is forced; and an unforced sync() issued
\* after a sync() has resolved, with no mutation since that one was called, calls no
\* backend.save.
C5_DirtySkip ==
  (cev.op = "sync" /\ cev.isCall) =>
    /\ (cev.save # "none") <=> (backend # "null" /\ (cev.dirtyAtSync \/ cev.force))
    /\ (cev.prevSync # "none" /\ ~cev.force) => cev.save = "none"

\* C5 witness: with a backend attached, a sync() has saved and resolved, and the
\* unforced sync() after it has returned without a save.
C5_Witness ==
  /\ cev.op = "sync"
  /\ cev.isCall
  /\ ~cev.force
  /\ cev.prevSync = "saved"
  /\ cev.save = "none"
  /\ backend # "null"

----------------------------------------------------------------------------
(* Claims about the facade and its backend, checked under SpecCache.       *)

\* C8: the write policy.  A mutating call that has changed the snapshot invokes sync
\* exactly when the caller passed syncNow = true or the syncOnWrite option is set.
C8_WritePolicy ==
  (cev.isCall /\ cev.applied) =>
    (cev.syncCalled <=> (cev.arg = "true" \/ options.syncOnWrite))

\* C10: deletions reach the backend.  Once delete(K, true) of an existing top-level
\* key K has resolved on a cache with a backend, backend.fetch() has no K; once
\* clear(true) has resolved, backend.fetch() is empty.
C10_DeletionsReachBackend ==
  (cev.op \in {"delete", "clear"} /\ cev.applied /\ cev.arg = "true"
     /\ cev.phase = "resolved" /\ backend # "null") =>
    IF cev.op = "delete"
    THEN PathOf(cev.key)[1] \notin DOMAIN BackendFetch(backend, store)
    ELSE BackendFetch(backend, store) = NoProps

----------------------------------------------------------------------------
(* Claims about the accessors, checked under SpecPath.                     *)

\* C6: round trip.  After set(P, V) the flag is set, and get(P) right after it
\* returns V, for every path P, value V and snapshot.
C6_RoundTrip ==
  /\ (cev.op = "set" /\ cev.isCall) => isDirty
  /\ (cev.op = "get" /\ cev.after.op = "set" /\ cev.after.key = cev.key) =>
       cev.got = cev.after.val

RECURSIVE Stored(_, _)
\* the value stored in v at the path names: that of the last name in what is stored at
\* the names before it, undefined when that is null or no container or has no such
\* property
Stored(v, names) ==
  IF names = <<>> THEN v
  ELSE LET parent == Stored(v, SubSeq(names, 1, Len(names) - 1))
           last == names[Len(names)]
       IN IF parent.t \in {"object", "array"} /\ last \in DOMAIN parent.p
          THEN parent.p[last]
          ELSE Undefined

\* C23: get is total.  For every snapshot and every path of one or more segments,
\* given as a dot string or as a list, get(P) does not throw and returns the value
\* stored at P, which is undefined when a segment is missing or a value on the way is
\* null or not a container.
C23_GetTotal ==
  (cev.op = "get" /\ PathOf(cev.key) # <<>>) =>
    /\ ~cev.threw
    /\ cev.phase = "resolved"
    /\ cev.got = Stored(inMemoryData, PathOf(cev.key))

\* C23 witness: get("a.b") on a snapshot that holds null at a has returned undefined.
C23_Witness ==
  /\ cev.op = "get"
  /\ cev.key = StringKey(<<"a", ".", "b">>)
  /\ nops = 1
  /\ "a" \in DOMAIN inMemoryData.p
  /\ inMemoryData.p["a"] = Null
  /\ cev.got = Undefined

\* C24: the empty list of segments is invalid input.  get([]) returns undefined, and
\* set([], V) leaves the snapshot as it is.
C24_EmptyPathInvalid ==
  /\ []((cev.op = "get" /\ PathOf(cev.key) = <<>>) => cev.got = Undefined)
  /\ [][(cev'.op = "set" /\ cev'.isCall /\ PathOf(cev'.key) = <<>>) =>
          inMemoryData' = inMemoryData]_vars

\* two paths part at some segment: neither is a prefix of the other
Apart(names, others) ==
  \E i \in 1..Len(names) : i <= Len(others) /\ names[i] # others[i]

\* C25: set overwrites a prefix that is no container.  When a proper prefix of P holds
\* a scalar or null, set(P, V) succeeds, afterwards the prefix holds a container,
\* the value at every path that parts from the overwritten prefix is what it was, and
\* get(P) returns V.
C25_SetOverwritesScalarPrefix ==
  /\ [][(/\ cev'.op = "set"
          /\ cev'.isCall
          /\ ScalarPrefix(inMemoryData, PathOf(cev'.key)) > 0) =>
          LET props == PathOf(cev'.key)
              prefix == SubSeq(props, 1, ScalarPrefix(inMemoryData, props))
          IN /\ ~cev'.threw
             /\ cev'.phase = "resolved"
             /\ Stored(inMemoryData', prefix).t \in {"object", "array"}
             /\ \A others \in PathSeqs :
                  Apart(prefix, others) =>
                    Stored(inMemoryData', others) = Stored(inMemoryData, others)]_vars
  /\ [][(/\ cev.op = "set"
          /\ cev.isCall
          /\ cev.over > 0
          /\ cev'.op = "get"
          /\ cev'.key = cev.key) =>
          cev'.got = cev.val]_vars

----------------------------------------------------------------------------
(* Claims about save and fetch, checked under SpecSave.                    *)

\* C9: save replaces the whole persisted state.  After two saves on a backend,
\* fetch() returns the snapshot of the second: its keys and no other, each with the
\* value saved.
C9_SaveReplaces ==
  (cev.op = "backend.fetch" /\ Len(saved) >= 2) => cev.got = Obj(saved[Len(saved)])

----------------------------------------------------------------------------
(* Claims about a reload from the file, checked under SpecReload.          *)

\* C11: persist and reload on the file backend.  When set(P, V, true) has resolved on
\* a file-backed cache and a fresh instance on the same file is constructed next, its
\* init() leaves isDirty false, and when that init() has attached the backend and read
\* the file, get(P) returns V.
C11_ReloadRoundTrip ==
  /\ (cev.op = "init" /\ cev.phase = "resolved") => ~isDirty
  /\ (/\ cev.op = "get"
      /\ cev.after.op = "init"
      /\ ~cev.after.threw
      /\ cev.persisted.op = "set"
      /\ cev.key = cev.persisted.key) =>
       cev.got = cev.persisted.val

----------------------------------------------------------------------------
(* Claims about init(), the timer and close(), checked under SpecLife.     *)

\* C12: the order of close().  A close() that has resolved has first cleared the
\* timer, then, with syncOnClose and a backend attached, made exactly one
\* backend.save (whether or not the snapshot was dirty), then called backend.close().
C12_CloseOrder ==
  (cev.op = "close" /\ cev.phase = "resolved") =>
    /\ syncIntervalId = "cleared"
    /\ events = (IF backend = "null" THEN <<"clearInterval">>
                 ELSE IF options.syncOnClose
                 THEN <<"clearInterval", "backend.save", "backend.close">>
                 ELSE <<"clearInterval", "backend.close">>)

\* C13: close() twice.  A close() called right after a close() has resolved, with no
\* call made since that one was called, awaits no sync and so cannot reject; it makes
\* no backend.save, and the only backend call it makes is backend.close().
C13_CloseIdempotent ==
  lifecycle.again =>
    /\ lifecycle.close # "sync"
    /\ events \in {<<"clearInterval">>, <<"clearInterval", "backend.close">>}
    /\ ~(cev.op = "close" /\ cev.phase = "rejected")

\* C13 witness: with syncOnClose and a backend, a first close() that saved has
\* resolved, and the close() called right after it has resolved too, with
\* backend.close() as its only backend call.
C13_Witness ==
  /\ lifecycle.again
  /\ lifecycle.closes = 2
  /\ lifecycle.close = "none"
  /\ options.syncOnClose
  /\ backend # "null"
  /\ store # EmptyStore(backend)
  /\ events = <<"clearInterval", "backend.close">>
  /\ cev.op = "close"
  /\ cev.phase = "resolved"

\* C14: the timer and close().  Once close() has been called the timer is cleared, so
\* a sync started by the timer starts only while no close() has been called; and a sync
\* started by the timer is not forced, so it calls backend.save only when isDirty is
\* set.
C14_TimerCancelled ==
  /\ events # <<>> => syncIntervalId = "cleared"
  /\ (cev.op = "timer" /\ cev.isCall) =>
       /\ events = <<>>
       /\ ~cev.force
       /\ cev.save # "none" => cev.dirtyAtSync

\* C14 witness: after init() with a backend attached, a tick of the timer found the
\* snapshot clean and wrote nothing.
C14_Witness ==
  /\ cev.op = "timer"
  /\ cev.isCall
  /\ backend # "null"
  /\ lifecycle.init = "done"
  /\ ~cev.dirtyAtSync
  /\ cev.save = "none"
  /\ syncIntervalId = "set"

\* C15: a failure in a sync started by the timer is contained.  No promise rejects
\* without a handler, and when the save of a sync started by the timer has rejected
\* isDirty is what it was when the save rejected, so a flag that was set stays set.
C15_TimerFailureContained ==
  /\ ~unhandled
  /\ (cev.op = "timer" /\ cev.save = "failed") => isDirty = cev.dirtyAtSettle

\* C16: a failed connection degrades to memory-only.  init() never rejects; when
\* constructing or connecting the backend failed, or the cache type is none that
\* initializeBackend knows, init() leaves backend null, cacheType "memory" and isDirty
\* false; and with no backend after init(), every sync, forced or not, and every other
\* call returns without a backend.save, a set having put its value in the snapshot.
C16_DegradesToMemory ==
  /\ cev.op = "init" => cev.phase # "rejected"
  /\ (/\ cev.op = "init"
      /\ cev.phase = "resolved"
      /\ cev.arg \in {"construct", "connect"} \/ BackendFor(options.cacheType) = "null") =>
       (backend = "null" /\ cacheType = "memory" /\ ~isDirty)
  /\ (lifecycle.init = "done" /\ backend = "null" /\ cev.isCall /\ cev.op # "init") =>
       /\ cev.save = "none"
       /\ cev.phase = "resolved"
       /\ cev.op = "set" => getProperties(inMemoryData, cev.key) = cev.val

\* C16 witness: the connection of a Redis backend failed in init(), and a forced
\* sync() after it has returned without a save.
C16_Witness ==
  /\ options.cacheType = "redis"
  /\ lifecycle.init = "done"
  /\ backend = "null"
  /\ cacheType = "memory"
  /\ cev.op = "sync"
  /\ cev.force
  /\ cev.isCall
  /\ cev.save = "none"
  /\ cev.phase = "resolved"

\* C17: the initial load.  When init() has resolved with a backend attached, the
\* snapshot is the mapping backend.fetch() returned when that is not empty, and empty
\* when it is empty or the fetch failed, and isDirty is false; an unforced sync()
\* called right after init() has resolved calls no backend.save.
C17_InitialLoad ==
  /\ (cev.op = "init" /\ cev.phase = "resolved" /\ backend # "null") =>
       /\ ~isDirty
       /\ inMemoryData = (IF cev.threw THEN EmptyObj ELSE Obj(BackendFetch(backend, store)))
  /\ (/\ cev.op = "sync"
      /\ cev.isCall
      /\ ~cev.force
      /\ cev.after.op = "init"
      /\ cev.after.phase = "resolved") =>
       cev.save = "none"

\* C17 witness: init() has loaded a mapping that is not empty, and the unforced sync()
\* right after it has written nothing.
C17_Witness ==
  /\ cev.op = "sync"
  /\ cev.isCall
  /\ ~cev.force
  /\ cev.after.op = "init"
  /\ cev.after.phase = "resolved"
  /\ ~cev.after.threw
  /\ backend # "null"
  /\ "b" \in DOMAIN inMemoryData.p
  /\ cev.save = "none"

----------------------------------------------------------------------------
(* Claims about the mutating calls and the flag, checked under SpecDirty.  *)

\* the calls that change the snapshot
MutatingOps == {"set", "delete", "add", "subtract", "push", "clear"}

\* C18 as stated: every call to set, delete, add, subtract, push or clear that returns
\* without a save leaves isDirty true, whatever the snapshot held and whether or not
\* the targeted key existed.
C18_EveryMutationMarksDirty ==
  [][(cev'.isCall /\ cev'.op \in MutatingOps /\ cev'.phase = "resolved") => isDirty']_vars

\* the path of key is in the snapshot and its last segment is not the empty name
Deletable(key) ==
  /\ HasPath(inMemoryData, PathOf(key), 1)
  /\ PathOf(key) # <<>>
  /\ PathOf(key)[Len(PathOf(key))] # ""

\* C18: every call to set, add, subtract, push or clear, and every delete of a path
\* that is in the snapshot and does not end in the empty name, that returns without a
\* save leaves isDirty true, whatever the snapshot held.
C18_MutationMarksDirty ==
  [][(/\ cev'.isCall
      /\ cev'.op \in MutatingOps
      /\ cev'.phase = "resolved"
      /\ cev'.op = "delete" => Deletable(cev'.key)) =>
       isDirty']_vars

\* C18 witness: clear() on a snapshot that was empty has returned without a sync, and
\* isDirty is true.
C18_Witness ==
  /\ cev.op = "clear"
  /\ cev.isCall
  /\ cev.was = EmptyObj
  /\ ~cev.syncCalled
  /\ cev.phase = "resolved"
  /\ isDirty

\* C19: delete(P) on a path with an absent segment changes nothing: the snapshot and
\* isDirty are what they were, sync is not called and no save starts, whatever syncNow
\* and syncOnWrite are, and the call returns.
C19_AbsentDeleteNoOp ==
  [][(/\ cev'.op = "delete"
      /\ cev'.isCall
      /\ ~HasPath(inMemoryData, PathOf(cev'.key), 1)) =>
       /\ inMemoryData' = inMemoryData
       /\ isDirty' = isDirty
       /\ inflight' = inflight
       /\ ~cev'.syncCalled
       /\ cev'.phase = "resolved"]_vars

\* C19 witness: with a backend and syncOnWrite, delete("a.b", true) on a clean
\* snapshot that has a but no a.b has returned; sync was not called and the
\* snapshot is still clean.
C19_Witness ==
  /\ cev.op = "delete"
  /\ cev.isCall
  /\ cev.key = StringKey(<<"a", ".", "b">>)
  /\ "a" \in DOMAIN inMemoryData.p
  /\ ~cev.applied
  /\ cev.arg = "true"
  /\ options.syncOnWrite
  /\ backend = "file"
  /\ ~cev.syncCalled
  /\ ~isDirty

\* C22: add and subtract called with a count that is not numeric reject at once: the
\* call changes neither the snapshot nor isDirty, calls no sync and starts no save.
C22_InvalidCountRejected ==
  [][(/\ cev'.op \in {"add", "subtract"}
      /\ cev'.isCall
      /\ parseInt(cev'.count).t = "NaN") =>
       /\ cev'.phase = "rejected"
       /\ inMemoryData' = inMemoryData
       /\ isDirty' = isDirty
       /\ inflight' = inflight
       /\ ~cev'.syncCalled]_vars

----------------------------------------------------------------------------
(* Claims about the counters, checked under SpecCounter.                   *)

\* Number(v) is NaN
NotNumeric(v) ==
  \/ v.t \in {"undefined", "NaN", "object"}
  \/ v.t = "string" /\ \E i \in DOMAIN v.s : ~IsDigit(v.s[i])
  \/ v.t = "array" /\ (Len(v.e) > 1 \/ (Len(v.e) = 1 /\ v.e[1].t # "number"))

\* C20: counters.  After add(P, n1) on a snapshot without P and add(P, n2) right
\* after it, get(P) returns n1 + n2; add and subtract take a current value that is
\* missing or does not convert to a number as 0; and subtract(P, n) leaves the
\* snapshot that add(P, -n) leaves.
C20_CounterArithmetic ==
  /\ []((cev.op = "get" /\ Len(cev.adds) = 2) =>
          cev.got = Num(cev.adds[1].n + cev.adds[2].n))
  /\ []((cev.op \in {"add", "subtract"} /\ cev.isCall /\ NotNumeric(cev.was)) =>
          cev.val = (IF cev.op = "add" THEN cev.count ELSE Num(0 - cev.count.n)))
  /\ [][(cev'.op = "subtract" /\ cev'.isCall) =>
          inMemoryData' =
            setProperties(Heap(inMemoryData, prototypes), cev'.key,
                          Added(cev'.key, Num(0 - cev'.count.n))).heap["data"]]_vars

\* C20 witness: add(P, -1) on a snapshot without P, add(P, 2) and get(P), which
\* returned 1.
C20_Witness ==
  /\ cev.op = "get"
  /\ Len(cev.adds) = 2
  /\ cev.adds[1] = Num(0 - 1)
  /\ cev.adds[2] = Num(2)
  /\ cev.got = Num(1)

----------------------------------------------------------------------------
(* Claims about the lists, checked under SpecPush.                         *)

\* the list at a path after push(element) when the path held was
ListAfterPush(was, element) ==
  IF was.t = "array" THEN [was EXCEPT !.e = @ \o <<element>>] ELSE Arr(<<element>>)

\* C21: push.  push(P, e) on a path that holds no list (nothing, or a value that is
\* not a list) leaves [e] at P, a following push(P, e2) leaves [e, e2], every push
\* makes the list at P one longer with the element last, and a get(P) after a push
\* returns that list.
C21_PushAppends ==
  /\ [][(cev'.op = "push" /\ cev'.isCall) =>
          getProperties(inMemoryData', cev'.key) = ListAfterPush(cev'.was, cev'.val)]_vars
  /\ [][(/\ cev.op = "push"
          /\ cev.was.t # "array"
          /\ cev'.op = "push"
          /\ cev'.key = cev.key) =>
          getProperties(inMemoryData', cev'.key) = Arr(<<cev.val, cev'.val>>)]_vars
  /\ [][(cev.op = "push" /\ cev'.op = "get" /\ cev'.key = cev.key) =>
          cev'.got = ListAfterPush(cev.was, cev.val)]_vars

\* C21 witness: after push(P, 7) on a snapshot with a scalar at P and push(P, "x"),
\* get(P) returned [7, "x"].
C21_Witness ==
  /\ cev.op = "get"
  /\ cev.after.op = "push"
  /\ nops = 3
  /\ cev.got = Arr(<<Num(7), Str(<<"x">>)>>)

----------------------------------------------------------------------------
(* Claims about a cache without a backend, checked under SpecLife.         *)

\* C26: sync on a memory-only cache is a no-op.  With no backend attached, sync(force)
\* returns without error for either value of force, calls no backend, and leaves the
\* snapshot and isDirty as they are.
C26_MemorySyncNoOp ==
  [][(cev'.op = "sync" /\ cev'.isCall /\ backend = "null") =>
       /\ cev'.phase = "resolved"
       /\ ~cev'.threw
       /\ cev'.save = "none"
       /\ inMemoryData' = inMemoryData
       /\ isDirty' = isDirty
       /\ inflight' = inflight
       /\ store' = store
       /\ saved' = saved
       /\ connected' = connected]_vars

\* C26 witness: sync(true) on a clean cache of type memory, after init(), has returned
\* and nothing was saved.
C26_Witness ==
  /\ cev.op = "sync"
  /\ cev.isCall
  /\ cev.force
  /\ cev.phase = "resolved"
  /\ options.cacheType = "memory"
  /\ lifecycle.init = "done"
  /\ backend = "null"
  /\ ~isDirty
  /\ inflight = {}

----------------------------------------------------------------------------
(* Claims about MongoDBBackend, checked under SpecMongo.                   *)

\* the connect() of p returns without an error: to save or fetch, which go on to use
\* the collection, or as a connect() call that resolves
MongoConnectResolves(p) ==
  \/ mpc[p] \in {"idle", "cn_await"} /\ mpc'[p] = "use"
  \/ /\ mpc[p] = "cn_await"
     /\ mcall[p] = "connect"
     /\ mpc'[p] = "idle"
     /\ mev'.ok
  \/ /\ mpc[p] = "idle"
     /\ mpc' = mpc
     /\ nmcalls' = nmcalls + 1
     /\ mev'.op = "connect"
     /\ mev'.p = p

\* C30: MongoDB connect establishes the handle.  Whenever a connect() resolves, this.collection
\* is set, and every save and fetch that goes on after its connect() finds it set, in
\* every interleaving of the calls.
C30_MongoConnectSetsHandle ==
  /\ [][\A p \in MongoCallers : MongoConnectResolves(p) => collection' = "set"]_vars
  /\ [](\A p \in MongoCallers : mpc[p] = "use" => collection = "set")


\* close() has resolved on an initialized instance and nothing was called since
Closed ==
  /\ lifecycle.init = "done"
  /\ lifecycle.close = "none"
  /\ cev.op = "close"
  /\ cev.phase = "resolved"

\* C32: CLOSED is terminal.  The call that follows a close() that has resolved (a
\* mutating call with sync, sync itself, or a further close) hands no snapshot to
\* backend.save.
C32_ClosedTerminal == [][Closed => inflight' \subseteq inflight]_vars


\* the backends that store one record for each key and have add, subtract and push
Granular == {"sqlite", "redis"}

\* C33: the native atomic path is preferred.  When add, subtract or push of the
\* facade has run on a granular backend, the backend's own add, subtract or push was
\* invoked for the key, so the backend holds a record for the key whether or not the
\* call asked for a sync.
C33_NativeAtomicPreferred ==
  (cev.isCall /\ cev.op \in AtomicOps /\ ~cev.threw /\ backend \in Granular) =>
    PathOf(cev.key)[1] \in DOMAIN BackendFetch(backend, store)


\* the save of a sync rejects at this step
SaveRejects == inflight' # inflight /\ cev'.save = "failed"

\* C36: a failed implicit sync does not undo the mutation.  When the save of the sync
\* that a mutating call invoked rejects, the call rejects; the step leaves the
\* snapshot, the flag and the backend as they are, so the mutation stays applied and
\* a flag that was set stays set; and a sync() called next with the flag set hands
\* the snapshot, the mutation in it, to backend.save.
C36_FailedSyncKeepsMutation ==
  /\ []((cev.op \in MutatingOps /\ cev.save = "failed") =>
          (cev.phase = "rejected" /\ cev.applied /\ isDirty = cev.dirtyAtSettle))
  /\ [][SaveRejects =>
          /\ inMemoryData' = inMemoryData
          /\ prototypes' = prototypes
          /\ isDirty' = isDirty
          /\ store' = store]_vars
  /\ [][(cev.op \in MutatingOps /\ cev.save = "failed" /\ isDirty
          /\ cev'.op = "sync" /\ cev'.isCall) =>
          \E f \in inflight' \ inflight : f.copy = inMemoryData.p]_vars

\* C36 witness: a set that asked for a sync has rejected because the save rejected;
\* get returns the value set, the flag is set and the backend holds nothing of it.
C36_Witness ==
  /\ cev.op = "set"
  /\ cev.arg = "true"
  /\ cev.save = "failed"
  /\ cev.phase = "rejected"
  /\ inflight = {}
  /\ getProperties(inMemoryData, cev.key) = cev.val
  /\ isDirty
  /\ BackendFetch(backend, store) = NoProps


----------------------------------------------------------------------------
(* Claims about calls made before init() has completed, checked under      *)
(* SpecInit, where every set is made before init() completes.              *)

\* the top-level name the set calls of the start-up write
InitName == PathOf(CacheKey)[1]

\* C37: init() overrides earlier state.  When init() has completed with a backend
\* attached, the snapshot is what backend.fetch() returned (empty when that failed)
\* and isDirty is false; the value of a set made before init() completed is not in
\* the snapshot then and is never in the backend; and an init() that ends memory-only
\* leaves the snapshot as it is and isDirty false.
C37_InitOverrides ==
  /\ []((cev.op = "init" /\ cev.phase = "resolved" /\ backend # "null") =>
          /\ ~isDirty
          /\ inMemoryData = (IF cev.threw THEN EmptyObj
                             ELSE Obj(BackendFetch(backend, store)))
          /\ InitName \notin DOMAIN inMemoryData.p)
  /\ [](backend # "null" => InitName \notin DOMAIN BackendFetch(backend, store))
  /\ [][(lifecycle.init # "done" /\ lifecycle'.init = "done" /\ backend' = "null") =>
          (inMemoryData' = inMemoryData /\ ~isDirty')]_vars


----------------------------------------------------------------------------
(* Further claims about the lifecycle, checked under SpecLife.             *)

\* init() has completed with backend.connect() resolved and backend.fetch() rejected
FetchFailed == lifecycle.init = "done" /\ lifecycle.load = "failed"

\* C38: a fetch failure at start-up keeps the backend attached.  When backend.fetch()
\* has rejected in init(), init() resolves with the backend of the cache type
\* attached and connected, the snapshot empty and isDirty false; from then on the
\* backend stays attached; a sync() called with the flag set hands the snapshot as it
\* is to backend.save, and the save that resolves leaves it in that backend.
C38_FetchFailureKeepsBackend ==
  /\ []((cev.op = "init" /\ cev.phase = "resolved" /\ lifecycle.load = "failed") =>
          /\ cev.threw
          /\ backend = BackendFor(options.cacheType)
          /\ backend # "null"
          /\ cacheType = options.cacheType
          /\ connected = "open"
          /\ inMemoryData = EmptyObj
          /\ ~isDirty)
  /\ [](FetchFailed => backend = BackendFor(options.cacheType))
  /\ [][(FetchFailed /\ isDirty /\ cev'.op = "sync" /\ cev'.isCall) =>
          /\ cev'.save = "pending"
          /\ \E f \in inflight' \ inflight : f.copy = inMemoryData.p]_vars
  /\ [][(FetchFailed /\ cev'.save = "ok" /\ inflight' # inflight) =>
          \E f \in inflight \ inflight' : store' = BackendSave(backend, store, f.copy)]_vars

\* C38 witness: after an init() whose fetch failed, a value was set and a sync() has
\* saved it: the backend, still attached, holds the snapshot with the value in it.
C38_Witness ==
  /\ FetchFailed
  /\ cev.op = "sync"
  /\ cev.save = "ok"
  /\ cev.phase = "resolved"
  /\ backend # "null"
  /\ cacheType # "memory"
  /\ ~isDirty
  /\ getProperties(inMemoryData, CacheKey) = CacheValue
  /\ BackendFetch(backend, store) = inMemoryData.p


\* C39: close() with a failing final sync.  When the save of the sync that close()
\* awaited has rejected, close() has rejected: backend.close() was not called, no
\* close() has completed, the timer is cleared, and isDirty is what it was when the
\* save rejected, so a flag that was set stays set; the step of the rejection leaves
\* the connection and the flag as they are.  close() saves only with syncOnClose set
\* and the snapshot dirty.
C39_CloseFailingSync ==
  /\ []((cev.op = "close" /\ cev.save = "failed") =>
          /\ options.syncOnClose
          /\ cev.dirtyAtSync
          /\ cev.phase = "rejected"
          /\ lifecycle.close = "none"
          /\ events = <<"clearInterval", "backend.save">>
          /\ syncIntervalId = "cleared"
          /\ isDirty = cev.dirtyAtSettle)
  /\ [][(cev'.op = "close" /\ cev'.save = "failed" /\ inflight' # inflight) =>
          /\ connected' = connected
          /\ isDirty' = isDirty
          /\ lifecycle'.closes = lifecycle.closes]_vars

\* C39 witness: the save of close() has rejected on a dirty snapshot; close() has
\* rejected, the connection is open, the timer cleared and the flag set.
C39_Witness ==
  /\ cev.op = "close"
  /\ cev.save = "failed"
  /\ cev.phase = "rejected"
  /\ options.syncOnClose
  /\ backend # "null"
  /\ connected = "open"
  /\ lifecycle.closes = 0
  /\ syncIntervalId = "cleared"
  /\ isDirty

====
